---- MODULE Spec2Model ----
(***************************************************************************)
(* A model of osquery-go: the channel based locker that serialises the     *)
(* client's RPCs (locker.go, client.go) and the extension manager server's *)
(* Start / Shutdown life cycle (server.go).                                *)
(*                                                                         *)
(* Time is discrete.  A timer or a context deadline that is due fires      *)
(* before the clock advances again (Tick is disabled while one is due), so *)
(* "waits at most d" reads "returns no later than d ticks after the call". *)
(***************************************************************************)
EXTENDS Integers, Sequences, FiniteSets, TLC

\* ------------------------------------------------------------------------
\* Bounds of the model
\* ------------------------------------------------------------------------
NumCallers == 3
NumApiCallers == 2
MaxDuration == 2
MaxExtraUnlocks == 2
NumShutdownCalls == 2
MaxUUID == 1

Callers == 1..NumCallers
\* The goroutines that use the locker directly (ApiSpec).
ApiCallers == 1..NumApiCallers
Durations == 1..MaxDuration
\* A critical section's length is counted up to here: longer than every timeout.
MaxHold == MaxDuration + 1

VARIABLES
    defaultTimeout,   \* locker.defaultTimeout
    maxWait,          \* locker.maxWait
    chanLen,          \* len(locker.c): number of values buffered in the channel
    sendq,            \* goroutines parked in Lock's select on the send to locker.c, oldest first
    pc,               \* where each calling goroutine is
    ctx,              \* the context of each caller's Lock (kept when Lock fails)
    waited,           \* time each caller has spent inside Lock (kept when Lock fails)
    result,           \* the error Lock returned to each caller
    holdClock,        \* time the current holder has kept the lock
    brief,            \* some critical section ended within defaultTimeout
    moved,            \* the clock has advanced since the locker was made
    together,         \* every Lock call so far was made with context.TODO(), and
                      \* before the clock advanced
    acquired,         \* number of Lock calls that returned nil
    released,         \* number of Unlock calls that returned
    unlockPanics,     \* number of Unlock calls that panicked
    extraUnlocks,     \* Unlock calls made outside a Lock/Unlock pair
    lastUnlock        \* the latest Unlock call: the holder count before it, what it did

params == <<defaultTimeout, maxWait>>
clocks == <<waited, holdClock, moved>>
counts == <<acquired, released, unlockPanics, lastUnlock>>

lockerVars == <<params, chanLen, sendq, pc, ctx, result, clocks, brief, together, counts,
                extraUnlocks>>

VARIABLES
    serverClient,                \* s.serverClient: "client" or "nil"
    serverClientShouldShutdown,  \* s.serverClientShouldShutdown
    server,                      \* s.server: "srv" or "nil"
    transport,                   \* s.transport: "open" or "nil"
    uuid,                        \* s.uuid
    started,                     \* s.started
    mutex,                       \* s.mutex: the goroutines holding it (none or one)
    thrift,                      \* the Thrift server made by Start: "none", "created",
                                 \* "serving", "stopping", "stopped"
    inflight,                    \* requests the Thrift server is serving
    stopper,                     \* the goroutine Shutdown spawns for server.Stop()
    startPc,                     \* where the goroutine running Start is
    startErr,                    \* what Start returned
    shPc,                        \* where each Shutdown call is
    shVia,                       \* how it was called: "direct" or "rpc" (served request)
    shErr,                       \* the error of each Shutdown call
    shOrd,                       \* its rank among the calls in taking s.mutex
    shStarted,                   \* s.started when it was called
    closes,                      \* Close() calls on the client
    deregOK,                     \* Shutdown's DeregisterExtension calls answered with code 0
    deregFailed,                 \* some DeregisterExtension call of Shutdown failed
    startDereg,                  \* Start's DeregisterExtension calls: uuid and answer
    startAns,                    \* how RegisterExtension answered Start ("" before)
    runPc,                       \* where the goroutine that called Run is
    runGot,                      \* the error Run received from errc
    runErr,                      \* what Run returned
    runSh,                       \* which Shutdown call is the one Run makes (0: none yet)
    wdPc,                        \* where Run's watchdog goroutine is
    errc,                        \* Run's errc: the goroutines blocked on a send, oldest first
    registry,                    \* s.registry: registry name -> (plugin name -> plugin)
    lastOp,                      \* the latest RegisterPlugin or Call and what it did
    lastQuery,                   \* the latest QueryRows / QueryRow call and what it returned
    stops,                       \* server.Stop() calls made by Shutdown's goroutines
    wdSlept,                     \* how long the watchdog has slept in this round
    pingsInFlight,               \* Ping calls of the watchdog that have not returned
    lastPing,                    \* how the watchdog's latest Ping returned, if one did
    calling,                     \* Call requests the Thrift server is serving
    newServer,                   \* a NewExtensionManagerServer call: arguments and result
    loggerCall,                  \* a Call of a logger plugin: request, log function, result
    tableCall,                   \* a Call of a table plugin: request, generator, result
    distributedCall,             \* a Call of a distributed plugin: request, writer, result
    tracerProvider,              \* traces: the two words of the package's tracerProvider
    setting,                     \* the SetTracerProvider call in progress and its stores
    spanPc,                      \* where each StartSpan call is
    spanRead                     \* the words of tracerProvider each StartSpan has loaded

serverFields == <<serverClient, serverClientShouldShutdown, server, transport, uuid, started>>
shutdownCalls == <<shPc, shVia, shErr, shOrd, shStarted>>
osquerySide == <<closes, deregOK, deregFailed>>

startLog == <<startDereg, startAns>>
runVars == <<runPc, runGot, runErr, runSh, wdPc, errc>>
registryVars == <<registry, lastOp>>

wdClock == <<wdSlept, pingsInFlight, lastPing>>
pluginCalls == <<newServer, loggerCall, tableCall, distributedCall>>
traceVars == <<tracerProvider, setting, spanPc, spanRead>>
laterVars == <<stops, wdClock, calling, traceVars, pluginCalls>>

serverVars == <<serverFields, mutex, thrift, inflight, stopper, startPc, startErr,
                shutdownCalls, osquerySide, startLog, runVars, registryVars, lastQuery,
                laterVars>>

vars == <<lockerVars, serverVars>>

\* ------------------------------------------------------------------------
\* Errors and contexts
\* ------------------------------------------------------------------------
\* An error value: the format string, the duration argument, the wrapped error.
NoError == [msg |-> "", wait |-> 0, inner |-> ""]

TimeoutErr(fmt, wait) == [msg |-> fmt, wait |-> wait, inner |-> ""]

\* The cancellation error without the wrapped ctx.Err().
CanceledErrBare(inner) == [msg |-> "context canceled: %w", wait |-> 0, inner |-> ""]

\* fmt.Errorf("context canceled: %w", ctx.Err())
CanceledErr(inner) == [msg |-> "context canceled: %w", wait |-> 0, inner |-> inner]

\* context.Background() / context.TODO(): no deadline, never done.
Background == [kind |-> "background", d |-> 0, cancelled |-> FALSE]

\* context.WithCancel: no deadline; done once cancel() was called.
WithCancel(cancelled) == [kind |-> "cancel", d |-> 0, cancelled |-> cancelled]

\* context.WithTimeout: the deadline is d away when Lock is called.
WithTimeout(d) == [kind |-> "deadline", d |-> d, cancelled |-> FALSE]

\* The contexts a caller may pass.
Contexts ==
    {Background} \cup {WithCancel(b) : b \in BOOLEAN}
                 \cup {WithTimeout(d) : d \in 0..(MaxDuration + 1)}

\* _, ok := ctx.Deadline()
HasDeadline(cx) == cx.kind = "deadline"

\* A context whose deadline never closes Done.
CtxErrNoDeadline(cx, e) == IF cx.cancelled THEN "context canceled" ELSE ""

\* ctx.Err() once Lock has been running for time e: "" while the context is not done.
CtxErr(cx, e) ==
    IF cx.cancelled THEN "context canceled"
    ELSE IF cx.kind = "deadline" /\ e >= cx.d THEN "context deadline exceeded"
    ELSE ""

\* ------------------------------------------------------------------------
\* locker
\* ------------------------------------------------------------------------
\* A channel with room for two values.
ChanCapTwo == 1 + 1

\* make(chan struct{}, 1)
ChanCap == 1

\* Lock without the "no deadline" branch: maxWait whatever the context.
LockWaitAlwaysMax(cx) == maxWait

\* Lock with the deadline test inverted.
LockWaitInverted(cx) == IF HasDeadline(cx) THEN defaultTimeout ELSE maxWait

\* Lock's local "wait".
LockWait(cx) == IF ~HasDeadline(cx) THEN defaultTimeout ELSE maxWait

\* Lock that never switches to the "maximum of" message.
TimeoutErrorPlain(cx) == "timeout after %s"

\* Lock's local "timeoutError".
TimeoutError(cx) ==
    IF ~HasDeadline(cx) THEN "timeout after %s" ELSE "timeout after maximum of %s"

\* Unlock whose default case returns instead of panicking.
UnlockOutcomeNoPanic(len) == IF len > 0 THEN "received" ELSE "returned"

\* Unlock's select: receive when a value is buffered, else the default case.
UnlockOutcome(len) == IF len > 0 THEN "received" ELSE "panic"

\* Callers between a Lock that returned nil and the return of their Unlock.
Holders == {c \in Callers : pc[c] \in {"held", "unlock"}}

Without(q, c) == SelectSeq(q, LAMBDA x : x # c)

LockFailsThenCallsStub(c, err) ==
    /\ pc' = [pc EXCEPT ![c] = "held"]
    /\ result' = [result EXCEPT ![c] = err]
    /\ sendq' = Without(sendq, c)

\* A Lock that returns err while its send stays queued on the channel.
LockFailsStaysQueued(c, err) ==
    /\ pc' = [pc EXCEPT ![c] = "failed"]
    /\ result' = [result EXCEPT ![c] = err]
    /\ UNCHANGED sendq

\* A parked Lock returns err to caller c without having taken the lock, and
\* the client method returns it.
LockFails(c, err) ==
    /\ pc' = [pc EXCEPT ![c] = "failed"]
    /\ result' = [result EXCEPT ![c] = err]
    /\ sendq' = Without(sendq, c)

\* Lock(ctx) up to its select.  The select takes a ready case, any of them when
\* several are ready, and parks the goroutine on both channels and the timer
\* when none is.  Callers are numbered in the order of their calls.
Lock(c) ==
    /\ pc[c] = "idle"
    /\ \A b \in Callers : b < c => pc[b] # "idle"
    /\ \E cx \in Contexts :
      /\ together' = (together /\ ~moved /\ cx = Background)
      /\ \/ /\ chanLen < ChanCap                \* case l.c <- struct{}{}
           /\ chanLen' = chanLen + 1
           /\ pc' = [pc EXCEPT ![c] = "held"]
           /\ acquired' = acquired + 1
           /\ holdClock' = 0
           /\ UNCHANGED <<sendq, result, ctx>>
        \/ /\ CtxErr(cx, 0) # ""               \* case <-ctx.Done()
           /\ pc' = [pc EXCEPT ![c] = "failed"]
           /\ ctx' = [ctx EXCEPT ![c] = cx]
           /\ result' = [result EXCEPT ![c] = CanceledErr(CtxErr(cx, 0))]
           /\ UNCHANGED <<chanLen, sendq, acquired, holdClock>>
        \/ /\ chanLen >= ChanCap               \* nothing ready: block
           /\ CtxErr(cx, 0) = ""
           /\ pc' = [pc EXCEPT ![c] = "parked"]
           /\ ctx' = [ctx EXCEPT ![c] = cx]
           /\ sendq' = Append(sendq, c)
           /\ UNCHANGED <<chanLen, result, acquired, holdClock>>
    /\ UNCHANGED <<params, waited, moved, brief, released, unlockPanics, lastUnlock,
                   extraUnlocks, serverVars>>

\* case <-timeout.C of a parked Lock.
TimerFire(c) ==
    /\ pc[c] = "parked"
    /\ waited[c] >= LockWait(ctx[c])
    /\ LockFails(c, TimeoutErr(TimeoutError(ctx[c]), LockWait(ctx[c])))
    /\ UNCHANGED <<params, chanLen, ctx, clocks, brief, together, counts, extraUnlocks,
                   serverVars>>

\* case <-ctx.Done() of a parked Lock whose context deadline has passed.
CtxDeadline(c) ==
    /\ pc[c] = "parked"
    /\ CtxErr(ctx[c], waited[c]) # ""
    /\ LockFails(c, CanceledErr(CtxErr(ctx[c], waited[c])))
    /\ UNCHANGED <<params, chanLen, ctx, clocks, brief, together, counts, extraUnlocks,
                   serverVars>>

\* The caller's cancel() while its Lock is parked: closing the Done channel
\* wakes the parked select with that case.
CancelCtx(c) ==
    /\ pc[c] = "parked"
    /\ ctx[c].kind # "background"
    /\ CtxErr(ctx[c], waited[c]) = ""
    /\ ctx' = [ctx EXCEPT ![c].cancelled = TRUE]
    /\ LockFails(c, CanceledErr("context canceled"))
    /\ UNCHANGED <<params, chanLen, clocks, brief, together, counts, extraUnlocks, serverVars>>

\* The critical section ends: the Thrift stub returns (client.go) or the sleep
\* is over (thingDoer.Once); the deferred Unlock runs next.
StubReturn(c) ==
    /\ pc[c] = "held"
    /\ pc' = [pc EXCEPT ![c] = "unlock"]
    /\ UNCHANGED <<params, chanLen, sendq, ctx, result, clocks, brief, together, counts,
                   extraUnlocks, serverVars>>

\* The error a Thrift stub returns (a transport or protocol error).
StubError == [msg |-> "rpc error", wait |-> 0, inner |-> ""]

\* A client method that unlocks only after a stub call that succeeded.
StubFailsWithoutUnlock(c) ==
    /\ pc[c] = "held"
    /\ pc' = [pc EXCEPT ![c] = "done"]
    /\ result' = [result EXCEPT ![c] = StubError]
    /\ UNCHANGED <<params, chanLen, sendq, ctx, clocks, brief, together, counts,
                   extraUnlocks, serverVars>>

\* `return c.client.Ping(ctx)` and its like in the other client methods: the
\* stub returns an error, which the method returns after its deferred Unlock.
StubFails(c) ==
    /\ pc[c] = "held"
    /\ pc' = [pc EXCEPT ![c] = "unlock"]
    /\ result' = [result EXCEPT ![c] = StubError]
    /\ UNCHANGED <<params, chanLen, sendq, ctx, clocks, brief, together, counts,
                   extraUnlocks, serverVars>>

\* The body of Unlock, run by caller c, who continues at `after` when it returns
\* and at `onPanic` when it panics.  A receive from the full channel lets the
\* oldest parked sender complete its send: that Lock returns nil and the
\* channel stays full.
UnlockBody(c, after, onPanic) ==
    /\ lastUnlock' = [held |-> acquired - released, outcome |-> UnlockOutcome(chanLen)]
    /\ IF UnlockOutcome(chanLen) = "received"
       THEN /\ released' = released + 1
            /\ brief' = (brief \/ holdClock <= defaultTimeout)
            /\ holdClock' = 0
            /\ IF sendq # <<>>
               THEN /\ pc' = [pc EXCEPT ![c] = after, ![Head(sendq)] = "held"]
                    /\ ctx' = [ctx EXCEPT ![Head(sendq)] = Background]
                    /\ waited' = [waited EXCEPT ![Head(sendq)] = 0]
                    /\ sendq' = Tail(sendq)
                    /\ acquired' = acquired + 1
                    /\ UNCHANGED chanLen
               ELSE /\ pc' = [pc EXCEPT ![c] = after]
                    /\ chanLen' = chanLen - 1
                    /\ UNCHANGED <<sendq, ctx, waited, acquired>>
            /\ UNCHANGED unlockPanics
       ELSE /\ pc' = [pc EXCEPT ![c] = onPanic]
            /\ unlockPanics' = unlockPanics + 1
            /\ UNCHANGED <<chanLen, sendq, ctx, waited, acquired, released, brief, holdClock>>

\* The deferred Unlock of a caller whose Lock returned nil.
Unlock(c) ==
    /\ pc[c] = "unlock"
    /\ UnlockBody(c, "done", "panicked")
    /\ UNCHANGED <<params, result, moved, together, extraUnlocks, serverVars>>

\* An Unlock by a caller that is not between its Lock and its Unlock, as in
\* TestNeedlessUnlock and TestDoubleUnlock; the caller recovers from the panic.
ExtraUnlock(c) ==
    /\ pc[c] \in {"idle", "failed", "done"}
    /\ extraUnlocks < MaxExtraUnlocks
    /\ extraUnlocks' = extraUnlocks + 1
    /\ UnlockBody(c, pc[c], pc[c])
    /\ UNCHANGED <<params, result, moved, together, serverVars>>

\* Time passes, unless a parked Lock has a timer or a context deadline due.
Tick ==
    /\ \A c \in Callers :
          pc[c] = "parked" =>
              /\ waited[c] < LockWait(ctx[c])
              /\ CtxErr(ctx[c], waited[c]) = ""
    /\ moved' = TRUE
    /\ waited' = [c \in Callers |-> IF pc[c] = "parked" THEN waited[c] + 1 ELSE waited[c]]
    /\ holdClock' = IF Holders # {} /\ holdClock < MaxHold THEN holdClock + 1 ELSE holdClock
    /\ UNCHANGED <<params, chanLen, sendq, pc, ctx, result, brief, together, counts,
                   extraUnlocks, serverVars>>

\* NewLocker(c.waitTime, c.maxWaitTime) as NewClient calls it, which rejects a
\* default wait time larger than the maximum; callers have not called yet.
LockerInit ==
    /\ defaultTimeout \in Durations
    /\ maxWait \in Durations
    /\ defaultTimeout <= maxWait
    /\ chanLen = 0
    /\ sendq = <<>>
    /\ pc = [c \in Callers |-> "idle"]
    /\ ctx = [c \in Callers |-> Background]
    /\ waited = [c \in Callers |-> 0]
    /\ result = [c \in Callers |-> NoError]
    /\ holdClock = 0
    /\ brief = FALSE
    /\ moved = FALSE
    /\ together = TRUE
    /\ acquired = 0
    /\ released = 0
    /\ unlockPanics = 0
    /\ extraUnlocks = 0
    /\ lastUnlock = [held |-> 0, outcome |-> ""]

LockerSteps(who) ==
    \/ \E c \in who : Lock(c)
    \/ \E c \in who : TimerFire(c)
    \/ \E c \in who : CtxDeadline(c)
    \/ \E c \in who : CancelCtx(c)
    \/ \E c \in who : StubReturn(c)
    \/ \E c \in who : Unlock(c)
    \/ Tick

LockerNext == LockerSteps(Callers)

\* ------------------------------------------------------------------------
\* ExtensionManagerServer: Start and Shutdown
\* ------------------------------------------------------------------------
ShutdownCallers == 1..NumShutdownCalls

\* The goroutine that runs Start, as a holder of s.mutex.
Starter == 0

UUIDs == 1..MaxUUID

\* How osquery (or a mock of it) answers a call made through the client.
Answers == {"ok", "status", "err"}

\* s.serverClient.DeregisterExtension(s.uuid) is called unconditionally: on a
\* nil interface value the call is a nil pointer dereference.
DerefsNil(client) == client = "nil"

\* The error Shutdown returns after DeregisterExtension answered a.
DeregisterError(a) ==
    CASE a = "ok" -> "nil"
      [] a = "status" -> "status %d deregistering extension: %s"
      [] OTHER -> "deregistering extension"

\* ------------------------------------------------------------------------
\* ExtensionManagerServer: the plugin registry and Call
\* ------------------------------------------------------------------------
\* The longest argument list of one RegisterPlugin call, and the requests.
MaxPlugins == 2
MaxRequest == 1

validRegistryNames == {"table", "logger", "config", "distributed"}

\* What RegistryName() of a plugin, or the registry argument of Call, can be.
RegistryNameValues == validRegistryNames \cup {"", "tables"}

ItemNames == {"a", "b"}

\* The plugin objects of the program: two of them share registry and name.
Plugins ==
    { [id |-> 1, registryName |-> "table", name |-> "a"],
      [id |-> 2, registryName |-> "table", name |-> "a"],
      [id |-> 3, registryName |-> "logger", name |-> "a"],
      [id |-> 4, registryName |-> "config", name |-> "b"],
      [id |-> 5, registryName |-> "distributed", name |-> "a"],
      [id |-> 6, registryName |-> "tables", name |-> "a"],
      [id |-> 7, registryName |-> "", name |-> "b"] }

PluginLists == UNION { [1..n -> Plugins] : n \in 1..MaxPlugins }

Requests == 1..MaxRequest

\* plugin.Call(ctx, request) of a plugin: its response to the request.
PluginResponse(plugin, request) ==
    [status |-> [code |-> 0, message |-> "OK"], by |-> plugin.id, request |-> request]

\* &osquery.ExtensionResponse{Status: &osquery.ExtensionStatus{Code: 1, Message: ...}}
UnknownResponse(prefix, what) ==
    [status |-> [code |-> 1, message |-> <<prefix, what>>], by |-> 0, request |-> 0]

NoOp == [op |-> "none", plugins |-> <<>>, panicked |-> FALSE, registry |-> "", item |-> "",
         request |-> 0, response |-> UnknownResponse("", ""), err |-> "nil",
         invoked |-> <<>>]

\* subreg[name] = plugin
Put(subreg, name, plugin) ==
    [n \in DOMAIN subreg \cup {name} |-> IF n = name THEN plugin ELSE subreg[n]]

\* The loop of RegisterPlugin over plugins[i..]: the registry it leaves and
\* whether it panicked on a registry name that is not valid.
RECURSIVE RegisterLoopKeepsInvalid(_, _, _)
RegisterLoopKeepsInvalid(reg, plugins, i) ==
    IF i > Len(plugins) THEN [registry |-> reg, panicked |-> FALSE]
    ELSE IF plugins[i].registryName \notin DOMAIN reg
         THEN RegisterLoopKeepsInvalid(reg, plugins, i + 1)
         ELSE RegisterLoopKeepsInvalid(
                  [reg EXCEPT ![plugins[i].registryName] =
                       Put(@, plugins[i].name, plugins[i])], plugins, i + 1)

RECURSIVE RegisterLoop(_, _, _)
RegisterLoop(reg, plugins, i) ==
    IF i > Len(plugins) THEN [registry |-> reg, panicked |-> FALSE]
    ELSE IF plugins[i].registryName \notin validRegistryNames
         THEN [registry |-> reg, panicked |-> TRUE]
         ELSE RegisterLoop(
                  [reg EXCEPT ![plugins[i].registryName] =
                       Put(@, plugins[i].name, plugins[i])], plugins, i + 1)

\* The goroutine that calls RegisterPlugin, as a holder of s.mutex.
Registrar == NumShutdownCalls + 1

\* s.mutex after RegisterPlugin had Unlock as its last statement.
UnlockAtEnd(panicked) == IF panicked THEN {Registrar} ELSE {}

\* s.mutex after RegisterPlugin: `defer s.mutex.Unlock()` runs when the
\* function returns and when it panics.
DeferredUnlock(panicked) == {}

\* RegisterPlugin(plugins...): under s.mutex, which the deferred Unlock
\* releases when the loop panics too.
RegisterPlugin(plugins) ==
    /\ mutex = {}
    /\ LET out == RegisterLoop(registry, plugins, 1) IN
         /\ registry' = out.registry
         /\ lastOp' = [NoOp EXCEPT !.op = "register", !.plugins = plugins,
                                   !.panicked = out.panicked]
         /\ mutex' = DeferredUnlock(out.panicked)
    /\ UNCHANGED <<serverFields, thrift, inflight, stopper, startPc, startErr,
                   shutdownCalls, osquerySide, startLog, runVars, lastQuery, lockerVars,
                   laterVars>>

\* Call without the lookup of the item: the first plugin of the registry answers.
CallOutcomeAnyItem(reg, name, item, request) ==
    IF name \notin DOMAIN reg
    THEN [response |-> UnknownResponse("Unknown registry: ", name), invoked |-> <<>>]
    ELSE IF DOMAIN reg[name] = {}
         THEN [response |-> UnknownResponse("Unknown registry item: ", item),
               invoked |-> <<>>]
         ELSE LET plugin == reg[name][CHOOSE n \in DOMAIN reg[name] : TRUE] IN
                [response |-> PluginResponse(plugin, request), invoked |-> <<plugin.id>>]

\* Call(ctx, registry, item, request): the response, and the plugins invoked.
CallOutcome(reg, name, item, request) ==
    IF name \notin DOMAIN reg
    THEN [response |-> UnknownResponse("Unknown registry: ", name), invoked |-> <<>>]
    ELSE IF item \notin DOMAIN reg[name]
         THEN [response |-> UnknownResponse("Unknown registry item: ", item),
               invoked |-> <<>>]
         ELSE LET plugin == reg[name][item] IN
                [response |-> PluginResponse(plugin, request), invoked |-> <<plugin.id>>]

\* Call: a request of osquery routed to a plugin; the error returned is nil on
\* every path.
Call(name, item, request) ==
    /\ LET out == CallOutcome(registry, name, item, request) IN
         lastOp' = [NoOp EXCEPT !.op = "call", !.registry = name, !.item = item,
                                !.request = request, !.response = out.response,
                                !.invoked = out.invoked]
    /\ UNCHANGED <<serverFields, mutex, thrift, inflight, stopper, startPc, startErr,
                   shutdownCalls, osquerySide, startLog, runVars, registry, lastQuery,
                   lockerVars, laterVars>>

RegistryNext ==
    \/ \E plugins \in PluginLists : RegisterPlugin(plugins)
    \/ \E name \in RegistryNameValues, item \in ItemNames, request \in Requests :
         Call(name, item, request)

\* ------------------------------------------------------------------------
\* ExtensionManagerClient: QueryRows and QueryRow
\* ------------------------------------------------------------------------
\* The most rows of a response, and the largest status code.
MaxRows == 3
MaxCode == 2

RowValues == {"r1", "r2"}

Messages == {"no such table", ""}

\* An error of the helpers: the format, the wrapped error or the message, the number.
Nil == [msg |-> "", inner |-> "", n |-> 0]

\* What QueryContext can fail with: an error of the locker, one of the transport.
QueryErrors == {[msg |-> "timeout after %s", inner |-> "", n |-> 0],
                [msg |-> "broken pipe", inner |-> "", n |-> 0]}

\* res.Status == nil
NilStatus == [present |-> FALSE, code |-> 0, message |-> ""]

Statuses ==
    {NilStatus} \cup
    {[present |-> TRUE, code |-> c, message |-> m] : c \in 0..MaxCode, m \in Messages}

RowLists == UNION { [1..n -> RowValues] : n \in 0..MaxRows }

\* What QueryContext returns: an error and no response, or a response.
QueryResults ==
    {[err |-> e, status |-> NilStatus, response |-> <<>>] : e \in QueryErrors} \cup
    {[err |-> Nil, status |-> st, response |-> rows] : st \in Statuses, rows \in RowLists}

\* QueryRowsContext looking at the status before the error.
QueryRowsStatusFirst(res) ==
    IF ~res.status.present
    THEN [rows |-> <<>>, err |-> [msg |-> "query returned nil status", inner |-> "", n |-> 0]]
    ELSE IF res.status.code # 0
    THEN [rows |-> <<>>, err |-> [msg |-> "query returned error: %s",
                                  inner |-> res.status.message, n |-> 0]]
    ELSE [rows |-> res.response, err |-> res.err]

\* QueryRowsContext, from the result of QueryContext on.
QueryRows(res) ==
    IF res.err # Nil
    THEN [rows |-> <<>>, err |-> [msg |-> "transport error in query",
                                  inner |-> res.err.msg, n |-> 0]]
    ELSE IF ~res.status.present
    THEN [rows |-> <<>>, err |-> [msg |-> "query returned nil status", inner |-> "", n |-> 0]]
    ELSE IF res.status.code # 0
    THEN [rows |-> <<>>, err |-> [msg |-> "query returned error: %s",
                                  inner |-> res.status.message, n |-> 0]]
    ELSE [rows |-> res.response, err |-> Nil]

\* The map QueryRowContext returns with an error: nil.
NoRow == ""

\* QueryRowContext returning the first row whenever there is one.
QueryRowFirstOfMany(res) ==
    LET out == QueryRows(res) IN
      IF out.err # Nil THEN [row |-> NoRow, err |-> out.err]
      ELSE IF Len(out.rows) < 1
      THEN [row |-> NoRow, err |-> [msg |-> "expected 1 row, got %d", inner |-> "",
                                    n |-> Len(out.rows)]]
      ELSE [row |-> out.rows[1], err |-> Nil]

\* QueryRowContext, from the result of QueryContext on.
QueryRow(res) ==
    LET out == QueryRows(res) IN
      IF out.err # Nil THEN [row |-> NoRow, err |-> out.err]
      ELSE IF Len(out.rows) # 1
      THEN [row |-> NoRow, err |-> [msg |-> "expected 1 row, got %d", inner |-> "",
                                    n |-> Len(out.rows)]]
      ELSE [row |-> out.rows[1], err |-> Nil]

NoQuery == [op |-> "none", res |-> [err |-> Nil, status |-> NilStatus, response |-> <<>>],
            rows |-> <<>>, row |-> NoRow, err |-> Nil]

\* A call of QueryRows: the query is answered with res.
QueryRowsCall(res) ==
    /\ LET out == QueryRows(res) IN
         lastQuery' = [NoQuery EXCEPT !.op = "QueryRows", !.res = res, !.rows = out.rows,
                                      !.err = out.err]
    /\ UNCHANGED <<serverFields, mutex, thrift, inflight, stopper, startPc, startErr,
                   shutdownCalls, osquerySide, startLog, runVars, registryVars, lockerVars,
                   laterVars>>

\* A call of QueryRow: the query is answered with res.
QueryRowCall(res) ==
    /\ LET out == QueryRow(res) IN
         lastQuery' = [NoQuery EXCEPT !.op = "QueryRow", !.res = res, !.row = out.row,
                                      !.err = out.err]
    /\ UNCHANGED <<serverFields, mutex, thrift, inflight, stopper, startPc, startErr,
                   shutdownCalls, osquerySide, startLog, runVars, registryVars, lockerVars,
                   laterVars>>

\* The query methods of the client, and the most calls made of them.
QueryMethods == {"Query", "QueryRows", "QueryRow"}
MaxQueries == 2

\* What the Thrift stub c.client.Query answers: a transport error or a response.
StubAnswers == {r \in QueryResults : r.err.msg # "timeout after %s"}

\* What a method calls to have the query run.
Callee(method) ==
    CASE method = "QueryRow" -> "QueryRows"
      [] method = "QueryRows" -> "Query"
      [] OTHER -> "stub"

\* Every query method taking the locker itself.
TakesLockAlways(method) == TRUE

\* The method calls c.lock.Lock(ctx) and defers c.lock.Unlock(): QueryContext
\* does, QueryRowsContext and QueryRowContext do not.
TakesLock(method) == method = "Query"

\* What QueryContext hands back when Lock timed out under context.Background().
LockTimedOut ==
    [err |-> [msg |-> "timeout after %s", inner |-> "", n |-> 0], status |-> NilStatus,
     response |-> <<>>]

\* One goroutine runs `method` with len values in the locker's channel, depth
\* of them sent by its own Lock calls still to be unlocked, no other goroutine
\* using the client: the result of the query as the helpers see it, the Lock
\* calls made, those made while holding the locker, and those that returned nil
\* (each followed by its deferred Unlock).  A Lock on the full channel can only
\* time out, there being nobody to unlock.
RECURSIVE Descend(_, _, _, _)
Descend(method, len, depth, ans) ==
    IF method = "stub"
    THEN [res |-> ans, lockCalls |-> 0, reentrant |-> 0, unlocks |-> 0]
    ELSE IF ~TakesLock(method)
    THEN Descend(Callee(method), len, depth, ans)
    ELSE IF len >= ChanCap
    THEN [res |-> LockTimedOut, lockCalls |-> 1,
          reentrant |-> IF depth > 0 THEN 1 ELSE 0, unlocks |-> 0]
    ELSE LET in == Descend(Callee(method), len + 1, depth + 1, ans) IN
           [res |-> in.res, lockCalls |-> in.lockCalls + 1, reentrant |-> in.reentrant,
            unlocks |-> in.unlocks + 1]

\* A call of Query, QueryRows or QueryRow by the only user of the client, the
\* stub answering ans; every Lock that returned nil is unlocked on the way out.
ClientQuery(method, ans) ==
    /\ acquired < MaxQueries
    /\ Holders = {} /\ sendq = <<>>
    /\ LET d == Descend(method, chanLen, 0, ans)
           rows == QueryRows(d.res)
           row == QueryRow(d.res)
       IN /\ lastQuery' =
                [op |-> method, res |-> d.res,
                 rows |-> IF method = "QueryRows" THEN rows.rows ELSE <<>>,
                 row |-> IF method = "QueryRow" THEN row.row ELSE NoRow,
                 err |-> CASE method = "QueryRows" -> rows.err
                           [] method = "QueryRow" -> row.err
                           [] OTHER -> d.res.err,
                 answer |-> ans, lockCalls |-> d.lockCalls, reentrant |-> d.reentrant]
          /\ acquired' = acquired + d.unlocks
          /\ released' = released + d.unlocks
          /\ lastUnlock' = IF d.unlocks > 0
                           THEN [held |-> 1, outcome |-> UnlockOutcome(1)]
                           ELSE lastUnlock
    /\ UNCHANGED <<serverFields, mutex, thrift, inflight, stopper, startPc, startErr,
                   shutdownCalls, osquerySide, startLog, runVars, registryVars, laterVars,
                   params, chanLen, sendq, pc, ctx, result, clocks, brief, together,
                   unlockPanics, extraUnlocks>>

QueryLockNext == \E method \in QueryMethods, ans \in StubAnswers : ClientQuery(method, ans)

QueryNext ==
    \/ \E res \in QueryResults : QueryRowsCall(res)
    \/ \E res \in QueryResults : QueryRowCall(res)

\* ------------------------------------------------------------------------
\* Package traces
\* ------------------------------------------------------------------------
NumSpans == 2
NumProviders == 2

\* The goroutines that call StartSpan.
Spans == 1..NumSpans

\* otel.GetTracerProvider(), the value of tracerProvider at start.
GlobalProvider == 0

\* The providers given to SetTracerProvider: one goroutine sets them one after
\* the other.
Providers == 1..NumProviders

\* An interface value is two machine words, its type and its data.
Words == {"typ", "data"}

\* A word that StartSpan has not loaded yet.
Unread == 0 - 1

\* The words a plain load or store of the variable moves in one step: one.
\* The variable has no lock and is no atomic value.
WordsMoved(left) == {{w} : w \in left}

\* SetTracerProvider(tp) is called.
SetTracerProvider(tp) ==
    /\ setting.left = {}
    /\ tp = setting.tp + 1
    /\ setting' = [tp |-> tp, left |-> Words]
    /\ UNCHANGED <<serverFields, mutex, thrift, inflight, stopper, startPc, startErr,
                   shutdownCalls, osquerySide, startLog, runVars, registryVars, lastQuery,
                   lockerVars, stops, wdClock, calling, tracerProvider, spanPc, spanRead,
                   pluginCalls>>

\* tracerProvider = tp: a store.
StoreProvider ==
    /\ setting.left # {}
    /\ \E ws \in WordsMoved(setting.left) :
         /\ tracerProvider' = [w \in Words |-> IF w \in ws THEN setting.tp
                                                ELSE tracerProvider[w]]
         /\ setting' = [setting EXCEPT !.left = @ \ ws]
    /\ UNCHANGED <<serverFields, mutex, thrift, inflight, stopper, startPc, startErr,
                   shutdownCalls, osquerySide, startLog, runVars, registryVars, lastQuery,
                   lockerVars, stops, wdClock, calling, spanPc, spanRead, pluginCalls>>

\* StartSpan is called by g.
StartSpan(g) ==
    /\ spanPc[g] = "idle"
    /\ spanPc' = [spanPc EXCEPT ![g] = "load"]
    /\ UNCHANGED <<serverFields, mutex, thrift, inflight, stopper, startPc, startErr,
                   shutdownCalls, osquerySide, startLog, runVars, registryVars, lastQuery,
                   lockerVars, stops, wdClock, calling, tracerProvider, setting, spanRead,
                   pluginCalls>>

\* OsqueryGoTracer: tracerProvider.Tracer(...) loads the variable; with both
\* words loaded the tracer of that value starts the span.
LoadProvider(g) ==
    /\ spanPc[g] = "load"
    /\ \E ws \in WordsMoved({w \in Words : spanRead[g][w] = Unread}) :
         LET read == [w \in Words |-> IF w \in ws THEN tracerProvider[w]
                                      ELSE spanRead[g][w]]
         IN  /\ spanRead' = [spanRead EXCEPT ![g] = read]
             /\ spanPc' = [spanPc EXCEPT ![g] =
                              IF \A w \in Words : read[w] # Unread THEN "started"
                              ELSE "load"]
    /\ UNCHANGED <<serverFields, mutex, thrift, inflight, stopper, startPc, startErr,
                   shutdownCalls, osquerySide, startLog, runVars, registryVars, lastQuery,
                   lockerVars, stops, wdClock, calling, tracerProvider, setting,
                   pluginCalls>>

TracesNext ==
    \/ \E tp \in Providers : SetTracerProvider(tp)
    \/ StoreProvider
    \/ \E g \in Spans : StartSpan(g)
    \/ \E g \in Spans : LoadProvider(g)

\* &ExtensionManagerServer{...} as NewExtensionManagerServer and the tests
\* build it: the client is injected (WithClient) or made and owned by the server.
ServerInit(owned) ==
    /\ serverClient = "client"
    /\ serverClientShouldShutdown = owned
    /\ server = "nil"
    /\ transport = "nil"
    /\ uuid = 0
    /\ started = FALSE
    /\ mutex = {}
    /\ thrift = "none"
    /\ inflight = 0
    /\ stopper = "none"
    /\ startPc = "idle"
    /\ startErr = ""
    /\ shPc = [t \in ShutdownCallers |-> "idle"]
    /\ shVia = [t \in ShutdownCallers |-> ""]
    /\ shErr = [t \in ShutdownCallers |-> ""]
    /\ shOrd = [t \in ShutdownCallers |-> 0]
    /\ shStarted = [t \in ShutdownCallers |-> FALSE]
    /\ closes = 0
    /\ deregOK = 0
    /\ deregFailed = FALSE
    /\ startDereg = <<>>
    /\ startAns = ""
    /\ runPc = "idle"
    /\ runGot = ""
    /\ runErr = ""
    /\ runSh = 0
    /\ wdPc = "idle"
    /\ errc = <<>>
    /\ registry = [k \in validRegistryNames |-> <<>>]
    /\ lastOp = NoOp
    /\ lastQuery = NoQuery
    /\ stops = 0
    /\ wdSlept = 0
    /\ pingsInFlight = 0
    /\ lastPing = "none"
    /\ calling = 0
    /\ tracerProvider = [w \in Words |-> GlobalProvider]
    /\ setting = [tp |-> GlobalProvider, left |-> {}]
    /\ spanPc = [g \in Spans |-> "idle"]
    /\ spanRead = [g \in Spans |-> [w \in Words |-> Unread]]

TryLockAlways(holders) == TRUE

\* s.mutex.Lock() goes on when no goroutine holds the mutex.
TryLock(holders) == holders = {}

\* Start: s.mutex.Lock() in the inner function.
StartLock ==
    /\ startPc = "idle"
    /\ TryLock(mutex)
    /\ mutex' = {Starter}
    /\ startPc' = "register"
    /\ UNCHANGED <<serverFields, thrift, inflight, stopper, startErr, shutdownCalls,
                   osquerySide, lockerVars, startLog,
                   runVars, registryVars, lastQuery, laterVars>>

\* Start going on unless the call itself failed, whatever the status.
RegistrationFailedOnErrorOnly(a) == a = "err"

\* err != nil, or stat.Code != 0, after RegisterExtension.
RegistrationFailed(a) == a # "ok"

\* The error Start returns when RegisterExtension answered a.
RegisterError(a) ==
    IF a = "err" THEN "registering extension" ELSE "status %d registering extension: %s"

\* Start: genRegistry and s.serverClient.RegisterExtension, with the error
\* returns that follow it; the deferred Unlock runs on every way out.
StartRegister ==
    /\ startPc = "register"
    /\ IF DerefsNil(serverClient)
       THEN /\ startPc' = "panicked"
            /\ mutex' = {}
            /\ UNCHANGED <<uuid, startErr, startAns>>
       ELSE \E a \in Answers :
              /\ startAns' = a
              /\ IF RegistrationFailed(a)
                 THEN /\ startPc' = "returned"
                      /\ startErr' = RegisterError(a)
                      /\ mutex' = {}
                      /\ UNCHANGED uuid
                 ELSE /\ \E u \in UUIDs : uuid' = u
                      /\ startPc' = "open"
                      /\ UNCHANGED <<mutex, startErr>>
    /\ UNCHANGED <<serverClient, serverClientShouldShutdown, server, transport, started,
                   thrift, inflight, stopper, shutdownCalls, osquerySide, startDereg,
                   runVars, registryVars, lastQuery, lockerVars, laterVars>>

\* Start: transport.OpenServer succeeded; the Thrift server is made,
\* s.started is set and the mutex released.
StartOpened ==
    /\ startPc = "open"
    /\ transport' = "open"
    /\ server' = "srv"
    /\ thrift' = "created"
    /\ started' = TRUE
    /\ mutex' = {}
    /\ startPc' = "serve"
    /\ UNCHANGED <<serverClient, serverClientShouldShutdown, uuid, inflight, stopper,
                   startErr, shutdownCalls, osquerySide, lockerVars, startLog,
                   runVars, registryVars, lastQuery, laterVars>>

\* What Start returns when transport.OpenServer failed and DeregisterExtension
\* answered a: only the error of the call is looked at, not the status.
OpenFailedErrorSwapped(a) ==
    IF a = "err" THEN "opening server socket (%s)"
    ELSE "deregistering extension - follows %s"

OpenFailedError(a) ==
    IF a = "err" THEN "deregistering extension - follows %s"
    ELSE "opening server socket (%s)"

\* Start: transport.OpenServer failed; the extension is deregistered again with
\* the uuid of the answer and the open error, or the deregistration error in
\* front of it, returned.
StartOpenFailed ==
    /\ startPc = "open"
    /\ \E a \in Answers :
         /\ startDereg' = Append(startDereg, [uuid |-> uuid, answer |-> a])
         /\ startErr' = OpenFailedError(a)
    /\ startPc' = "returned"
    /\ mutex' = {}
    /\ UNCHANGED <<serverFields, thrift, inflight, stopper, shutdownCalls, osquerySide,
                   startAns, lockerVars, runVars, registryVars, lastQuery, laterVars>>

\* Start: server.Serve() begins to accept, unless the server was stopped first.
Serve ==
    /\ startPc = "serve"
    /\ thrift = "created"
    /\ thrift' = "serving"
    /\ startPc' = "serving"
    /\ UNCHANGED <<serverFields, mutex, inflight, stopper, startErr, shutdownCalls,
                   osquerySide, lockerVars, startLog,
                   runVars, registryVars, lastQuery, laterVars>>

\* Start: server.Serve() returns once the server is stopped.
ServeReturns ==
    /\ startPc \in {"serve", "serving"}
    /\ thrift \in {"stopping", "stopped"}
    /\ startPc' = "returned"
    /\ UNCHANGED <<serverFields, mutex, thrift, inflight, stopper, startErr, shutdownCalls,
                   osquerySide, lockerVars, startLog,
                   runVars, registryVars, lastQuery, laterVars>>

\* A Shutdown call begins: a direct call of the method, or a Shutdown request
\* of osquery that the serving Thrift server hands to the same method.
ShutdownCall(t) ==
    /\ shPc[t] = "idle"
    /\ \A b \in ShutdownCallers : b < t => shPc[b] # "idle"
    /\ \/ /\ shVia' = [shVia EXCEPT ![t] = "direct"]
          /\ UNCHANGED inflight
       \/ /\ thrift = "serving"
          /\ shVia' = [shVia EXCEPT ![t] = "rpc"]
          /\ inflight' = inflight + 1
    /\ shPc' = [shPc EXCEPT ![t] = "lock"]
    /\ shStarted' = [shStarted EXCEPT ![t] = started]
    /\ UNCHANGED <<serverFields, mutex, thrift, stopper, startPc, startErr, shErr, shOrd,
                   osquerySide, lockerVars, startLog,
                   runVars, registryVars, lastQuery, laterVars>>

\* Shutdown: s.mutex.Lock().
ShutdownLock(t) ==
    /\ shPc[t] = "lock"
    /\ TryLock(mutex)
    /\ mutex' = {t}
    /\ shOrd' = [shOrd EXCEPT ![t] = 1 + Cardinality({b \in ShutdownCallers : shOrd[b] > 0})]
    /\ shPc' = [shPc EXCEPT ![t] = "deregister"]
    /\ UNCHANGED <<serverFields, thrift, inflight, stopper, startPc, startErr, shVia, shErr,
                   shStarted, osquerySide, lockerVars, startLog,
                   runVars, registryVars, lastQuery, laterVars>>

\* A request served by the Thrift server is over.
Served(t) == IF shVia[t] = "rpc" THEN inflight - 1 ELSE inflight

\* Shutdown: stat, err := s.serverClient.DeregisterExtension(s.uuid) and the
\* error made of the answer.  On a nil client the call panics; the deferred
\* Unlock releases the mutex.
ShutdownDeregister(t) ==
    /\ shPc[t] = "deregister"
    /\ IF DerefsNil(serverClient)
       THEN /\ shPc' = [shPc EXCEPT ![t] = "panicked"]
            /\ mutex' = {}
            /\ inflight' = Served(t)
            /\ UNCHANGED <<shErr, osquerySide>>
       ELSE /\ \E a \in Answers :
                 /\ shErr' = [shErr EXCEPT ![t] = DeregisterError(a)]
                 /\ deregOK' = IF a = "ok" THEN deregOK + 1 ELSE deregOK
                 /\ deregFailed' = (deregFailed \/ a # "ok")
            /\ shPc' = [shPc EXCEPT ![t] = "close"]
            /\ UNCHANGED <<mutex, inflight, closes>>
    /\ UNCHANGED <<serverFields, thrift, stopper, startPc, startErr, shVia, shOrd, shStarted,
                   lockerVars, startLog,
                   runVars, registryVars, lastQuery, laterVars>>

\* Shutdown: s.serverClient.Close().
ShutdownClose(t) ==
    /\ shPc[t] = "close"
    /\ closes' = closes + 1
    /\ shPc' = [shPc EXCEPT ![t] = "stop"]
    /\ UNCHANGED <<serverFields, mutex, thrift, inflight, stopper, startPc, startErr, shVia,
                   shErr, shOrd, shStarted, deregOK, deregFailed, lockerVars, startLog,
                   runVars, registryVars, lastQuery, laterVars>>

ServerFieldKept(srv) == srv

\* s.server = nil, once the local variable holds the server.
ServerFieldTaken(srv) == "nil"

\* Shutdown: if s.server != nil, take it, set the field to nil and run
\* server.Stop() on a goroutine of its own.
ShutdownStop(t) ==
    /\ shPc[t] = "stop"
    /\ IF server # "nil"
       THEN /\ server' = ServerFieldTaken(server)
            /\ stopper' = "spawned"
            /\ stops' = stops + 1
       ELSE UNCHANGED <<server, stopper, stops>>
    /\ shPc' = [shPc EXCEPT ![t] = "closeOwned"]
    /\ UNCHANGED <<serverClient, serverClientShouldShutdown, transport, uuid, started, mutex,
                   thrift, inflight, startPc, startErr, shVia, shErr, shOrd, shStarted,
                   osquerySide, lockerVars, startLog, runVars, registryVars, lastQuery,
                   wdClock, calling, traceVars, pluginCalls>>

\* Shutdown: close and forget the client if the server made it; then return,
\* the deferred Unlock releasing the mutex.
ShutdownReturn(t) ==
    /\ shPc[t] = "closeOwned"
    /\ IF serverClientShouldShutdown /\ serverClient # "nil"
       THEN /\ closes' = closes + 1
            /\ serverClient' = "nil"
       ELSE UNCHANGED <<closes, serverClient>>
    /\ mutex' = {}
    /\ inflight' = Served(t)
    /\ shPc' = [shPc EXCEPT ![t] = "returned"]
    /\ UNCHANGED <<serverClientShouldShutdown, server, transport, uuid, started, thrift,
                   stopper, startPc, startErr, shVia, shErr, shOrd, shStarted, deregOK,
                   deregFailed, lockerVars, startLog,
                   runVars, registryVars, lastQuery, laterVars>>

\* server.Stop() on its goroutine: no request is accepted any more.
StopBegins ==
    /\ stopper = "spawned"
    /\ stopper' = "stopping"
    /\ thrift' = "stopping"
    /\ UNCHANGED <<serverFields, mutex, inflight, startPc, startErr, shutdownCalls,
                   osquerySide, lockerVars, startLog,
                   runVars, registryVars, lastQuery, laterVars>>

\* server.Stop() returns when the requests being served are over.
StopReturns ==
    /\ stopper = "stopping"
    /\ inflight = 0
    /\ stopper' = "stopped"
    /\ thrift' = "stopped"
    /\ UNCHANGED <<serverFields, mutex, inflight, startPc, startErr, shutdownCalls,
                   osquerySide, lockerVars, startLog,
                   runVars, registryVars, lastQuery, laterVars>>

\* The Call requests served at a time.
MaxCalling == 1

\* The Thrift server hands a Call request of osquery to s.Call, which goes on
\* to read s.registry; it does not lock s.mutex.
CallBegins ==
    /\ thrift = "serving"
    /\ calling < MaxCalling
    /\ calling' = calling + 1
    /\ inflight' = inflight + 1
    /\ UNCHANGED <<serverFields, mutex, thrift, stopper, startPc, startErr, shutdownCalls,
                   osquerySide, lockerVars, startLog, runVars, registryVars, lastQuery,
                   stops, wdClock, traceVars, pluginCalls>>

\* s.Call returns its response, and the request is over.
CallEnds ==
    /\ calling > 0
    /\ calling' = calling - 1
    /\ inflight' = inflight - 1
    /\ UNCHANGED <<serverFields, mutex, thrift, stopper, startPc, startErr, shutdownCalls,
                   osquerySide, lockerVars, startLog, runVars, registryVars, lastQuery,
                   stops, wdClock, traceVars, pluginCalls>>

\* ------------------------------------------------------------------------
\* ExtensionManagerServer: Run
\* ------------------------------------------------------------------------
\* The Shutdown call Run makes; the other calls come from osquery or the program.
RunShutdown == NumShutdownCalls

OtherShutdowns == ShutdownCallers \ {RunShutdown}

\* The errors the watchdog sends for a failed Ping.
PingErrors == {"extension ping failed", "ping returned status %d"}

PingError(a) ==
    IF a = "err" THEN "extension ping failed" ELSE "ping returned status %d"

\* The errors Start returns when RegisterExtension failed.
RegisterErrors == {"registering extension", "status %d registering extension: %s"}

\* The watchdog reads s.serverClient without holding s.mutex while Shutdown
\* writes it: the read gives the value of the field or the one it had before.
RacyRead(field) == {field, "client"}

\* What Run returns without looking at the error of Shutdown.
RunResultIgnoresShutdown(shutdownErr, err) == err

\* if err := s.Shutdown(...); err != nil { return err }; return err
RunResult(shutdownErr, err) == IF shutdownErr # "nil" THEN shutdownErr ELSE err

\* A goroutine other than one serving a request panicked: the program is over.
Crashed ==
    \/ wdPc = "panicked"
    \/ startPc = "panicked"
    \/ \E t \in ShutdownCallers : shPc[t] = "panicked" /\ shVia[t] # "rpc"

\* Run: make errc, start the goroutine that runs Start and the watchdog, and
\* wait on errc.
RunCall ==
    /\ runPc = "idle"
    /\ runPc' = "recv"
    /\ wdPc' = "sleep"
    /\ UNCHANGED <<serverFields, mutex, thrift, inflight, stopper, startPc, startErr,
                   shutdownCalls, osquerySide, startLog, runGot, runErr, runSh, errc,
                   registryVars, lastQuery, lockerVars, laterVars>>

\* The goroutine of Run that calls Start.
RunStart == runPc # "idle" /\ StartLock

\* errc <- s.Start(): Start returned and its goroutine blocks on the send.
StartSends ==
    /\ startPc = "returned"
    /\ startPc' = "sending"
    /\ errc' = Append(errc, [from |-> "start",
                             err |-> IF startErr = "" THEN "nil" ELSE startErr])
    /\ UNCHANGED <<serverFields, mutex, thrift, inflight, stopper, startErr, shutdownCalls,
                   osquerySide, startLog, runPc, runGot, runErr, runSh, wdPc,
                   registryVars, lastQuery, lockerVars, laterVars>>

\* s.pingInterval, in ticks of the clock.
PingInterval == 2

SleepOverAtOnce(slept) == TRUE

\* time.Sleep(d) returns once d has passed.
SleepOver(slept) == slept >= PingInterval

\* Watchdog: time passes in time.Sleep(s.pingInterval).
WatchdogSleep ==
    /\ wdPc = "sleep"
    /\ ~SleepOver(wdSlept)
    /\ wdSlept' = wdSlept + 1
    /\ UNCHANGED <<serverFields, mutex, thrift, inflight, stopper, startPc, startErr,
                   shutdownCalls, osquerySide, startLog, runVars, registryVars, lastQuery,
                   lockerVars, stops, pingsInFlight, lastPing, calling, traceVars, pluginCalls>>

\* Watchdog: time.Sleep(s.pingInterval) is over; if s.serverClient == nil { break }.
WatchdogCheck ==
    /\ wdPc = "sleep"
    /\ SleepOver(wdSlept)
    /\ \E v \in RacyRead(serverClient) :
         wdPc' = IF v = "nil" THEN "done" ELSE "ping"
    /\ UNCHANGED <<serverFields, mutex, thrift, inflight, stopper, startPc, startErr,
                   shutdownCalls, osquerySide, startLog, runPc, runGot, runErr, runSh,
                   errc, registryVars, lastQuery, lockerVars, laterVars>>

\* Watchdog: s.serverClient.Ping() is called, on a second read of the field.
WatchdogPing ==
    /\ wdPc = "ping"
    /\ \E v \in RacyRead(serverClient) :
         IF DerefsNil(v)
         THEN /\ wdPc' = "panicked"
              /\ UNCHANGED pingsInFlight
         ELSE /\ wdPc' = "pinging"
              /\ pingsInFlight' = pingsInFlight + 1
    /\ UNCHANGED <<serverFields, mutex, thrift, inflight, stopper, startPc, startErr,
                   shutdownCalls, osquerySide, startLog, runPc, runGot, runErr, runSh,
                   errc, registryVars, lastQuery, lockerVars, stops, wdSlept, lastPing,
                   calling, traceVars, pluginCalls>>

\* Watchdog: Ping returns.  On an error or a status that is not 0 the error is
\* sent on errc and the loop left; otherwise the loop sleeps again.
WatchdogPingReturns ==
    /\ wdPc = "pinging"
    /\ pingsInFlight' = pingsInFlight - 1
    /\ \E a \in Answers :
         IF a = "ok"
         THEN /\ wdPc' = "sleep"
              /\ wdSlept' = 0
              /\ lastPing' = "ok"
              /\ UNCHANGED errc
         ELSE /\ wdPc' = "sending"
              /\ lastPing' = "failed"
              /\ errc' = Append(errc, [from |-> "watchdog", err |-> PingError(a)])
              /\ UNCHANGED wdSlept
    /\ UNCHANGED <<serverFields, mutex, thrift, inflight, stopper, startPc, startErr,
                   shutdownCalls, osquerySide, startLog, runPc, runGot, runErr, runSh,
                   registryVars, lastQuery, lockerVars, stops, calling, traceVars, pluginCalls>>

\* Run: err := <-errc takes the value of the oldest blocked sender, whose
\* goroutine goes on; then Run calls s.Shutdown(context.Background()).
RunReceive ==
    /\ runPc = "recv"
    /\ errc # <<>>
    /\ runGot' = Head(errc).err
    /\ errc' = Tail(errc)
    /\ IF Head(errc).from = "start"
       THEN startPc' = "exited" /\ UNCHANGED wdPc
       ELSE wdPc' = "done" /\ UNCHANGED startPc
    /\ runPc' = "shutdown"
    /\ runSh' = RunShutdown
    /\ shPc' = [shPc EXCEPT ![RunShutdown] = "lock"]
    /\ shVia' = [shVia EXCEPT ![RunShutdown] = "run"]
    /\ shStarted' = [shStarted EXCEPT ![RunShutdown] = started]
    /\ UNCHANGED <<serverFields, mutex, thrift, inflight, stopper, startErr, shErr, shOrd,
                   osquerySide, startLog, runErr, registryVars, lastQuery, lockerVars,
                   laterVars>>

\* Run: Shutdown returned; its error if it has one, else the received one.
RunReturn ==
    /\ runPc = "shutdown"
    /\ shPc[runSh] = "returned"
    /\ runErr' = RunResult(shErr[runSh], runGot)
    /\ runPc' = "returned"
    /\ UNCHANGED <<serverFields, mutex, thrift, inflight, stopper, startPc, startErr,
                   shutdownCalls, osquerySide, startLog, runGot, runSh, wdPc, errc,
                   registryVars, lastQuery, lockerVars, laterVars>>

\* The steps of the goroutines Run starts, of Run itself and of Shutdown.
RunSteps ==
    \/ RunCall
    \/ RunStart
    \/ StartRegister
    \/ StartOpened
    \/ StartOpenFailed
    \/ Serve
    \/ ServeReturns
    \/ StartSends
    \/ RunReceive
    \/ RunReturn
    \/ \E t \in ShutdownCallers : ShutdownLock(t)
    \/ \E t \in ShutdownCallers : ShutdownDeregister(t)
    \/ \E t \in ShutdownCallers : ShutdownClose(t)
    \/ \E t \in ShutdownCallers : ShutdownStop(t)
    \/ \E t \in ShutdownCallers : ShutdownReturn(t)
    \/ StopBegins
    \/ StopReturns

\* The watchdog's wake-ups, and Shutdown calls from outside Run.
RunEnvironment ==
    \/ WatchdogSleep
    \/ WatchdogCheck
    \/ WatchdogPing
    \/ WatchdogPingReturns
    \/ \E t \in OtherShutdowns : ShutdownCall(t)

RunNext == ~Crashed /\ (RunSteps \/ RunEnvironment)

ServerNext ==
    \/ StartLock
    \/ StartRegister
    \/ StartOpened
    \/ StartOpenFailed
    \/ Serve
    \/ ServeReturns
    \/ \E t \in ShutdownCallers : ShutdownCall(t)
    \/ \E t \in ShutdownCallers : ShutdownLock(t)
    \/ \E t \in ShutdownCallers : ShutdownDeregister(t)
    \/ \E t \in ShutdownCallers : ShutdownClose(t)
    \/ \E t \in ShutdownCallers : ShutdownStop(t)
    \/ \E t \in ShutdownCallers : ShutdownReturn(t)
    \/ StopBegins
    \/ StopReturns
    \/ CallBegins
    \/ CallEnds

\* ------------------------------------------------------------------------
\* NewExtensionManagerServer
\* ------------------------------------------------------------------------
MaxSocketPathCharacters == 97

\* The longest socket path tried.
MaxPathLen == 99

PathLengths == 0..MaxPathLen

\* What NewClient does when it is called: it opens the socket or it fails.
DialAnswers == {"ok", "err"}

TooLongMessage == "exceeded the maximum socket path character length"

DialError == "opening socket transport"

NoCall == [op |-> "none"]

\* The arguments of a call: the length of sockPath, whether the options hold
\* WithClient, and what NewClient would answer.
NewServerCalls ==
    [op : {"new"}, len : PathLengths, withClient : BOOLEAN, dial : DialAnswers,
     returned : {FALSE}]

TooLongFromLimit(n) == n >= MaxSocketPathCharacters

\* The length check.
TooLong(n) == n > MaxSocketPathCharacters

\* The server and the error returned for the arguments, and the NewClient
\* calls made.
NewExtensionManagerServerResult(len, withClient, dial) ==
    IF TooLong(len)
    THEN [server |-> FALSE, err |-> TooLongMessage, newClients |-> 0,
          serverClient |-> "nil", serverClientShouldShutdown |-> FALSE]
    ELSE IF withClient
    THEN [server |-> TRUE, err |-> "", newClients |-> 0,
          serverClient |-> "client", serverClientShouldShutdown |-> FALSE]
    ELSE IF dial = "err"
    THEN [server |-> FALSE, err |-> DialError, newClients |-> 1,
          serverClient |-> "nil", serverClientShouldShutdown |-> FALSE]
    ELSE [server |-> TRUE, err |-> "", newClients |-> 1,
          serverClient |-> "client", serverClientShouldShutdown |-> TRUE]

NewExtensionManagerServer ==
    /\ newServer.op = "new"
    /\ ~newServer.returned
    /\ newServer' = [newServer EXCEPT !.returned = TRUE] @@
                     [result |-> NewExtensionManagerServerResult(
                                     newServer.len, newServer.withClient, newServer.dial)]
    /\ UNCHANGED <<serverFields, mutex, thrift, inflight, stopper, startPc, startErr,
                   shutdownCalls, osquerySide, startLog, runVars, registryVars, lastQuery,
                   lockerVars, stops, wdClock, calling, traceVars, loggerCall, tableCall,
                   distributedCall>>

\* ------------------------------------------------------------------------
\* The logger plugin
\* ------------------------------------------------------------------------
\* The texts a key of a request can hold.
MaxLogValues == 2

LogValues == 1..MaxLogValues

\* The keys Call looks up, in the order of its if / else if chain.
LogKeys == <<"string", "snapshot", "health", "init", "status">>

\* LogTypeString .. LogTypeStatus (iota).
LogType(key) == (CHOOSE i \in 1..Len(LogKeys) : LogKeys[i] = key) - 1

\* The keys a request can hold; "action" is one Call does not look up.
RequestKeys == {LogKeys[i] : i \in 1..Len(LogKeys)} \cup {"action"}

\* osquery.ExtensionPluginRequest: map[string]string.
LogRequests == UNION { [ks -> LogValues] : ks \in SUBSET RequestKeys }

\* What the log function returns: nil or an error.
LogFnErrors == {"nil", "foobar"}

LoggerCalls == [op : {"log"}, request : LogRequests, logErr : LogFnErrors, returned : {FALSE}]

LogKeyLastPresent(request) ==
    IF "status" \in DOMAIN request THEN "status"
    ELSE IF "init" \in DOMAIN request THEN "init"
    ELSE IF "health" \in DOMAIN request THEN "health"
    ELSE IF "snapshot" \in DOMAIN request THEN "snapshot"
    ELSE IF "string" \in DOMAIN request THEN "string"
    ELSE "none"

\* The branch Call takes: the key whose value is logged.
LogKey(request) ==
    IF "string" \in DOMAIN request THEN "string"
    ELSE IF "snapshot" \in DOMAIN request THEN "snapshot"
    ELSE IF "health" \in DOMAIN request THEN "health"
    ELSE IF "init" \in DOMAIN request THEN "init"
    ELSE IF "status" \in DOMAIN request THEN "status"
    ELSE "none"

\* The response of Call and the calls of the log function it makes.
LoggerCallResult(request, logErr) ==
    LET key == LogKey(request) IN
    IF key = "none"
    THEN [status |-> [code |-> 1, message |-> <<"unknown log request", "">>],
          logged |-> <<>>]
    ELSE LET logged == <<[typ |-> LogType(key), log |-> request[key]]>> IN
         IF logErr # "nil"
         THEN [status |-> [code |-> 1, message |-> <<"error logging: ", logErr>>],
               logged |-> logged]
         ELSE [status |-> [code |-> 0, message |-> <<"OK", "">>], logged |-> logged]

LoggerCall ==
    /\ loggerCall.op = "log"
    /\ ~loggerCall.returned
    /\ loggerCall' = [loggerCall EXCEPT !.returned = TRUE] @@
                      [result |-> LoggerCallResult(loggerCall.request, loggerCall.logErr)]
    /\ UNCHANGED <<serverFields, mutex, thrift, inflight, stopper, startPc, startErr,
                   shutdownCalls, osquerySide, startLog, runVars, registryVars, lastQuery,
                   lockerVars, stops, wdClock, calling, traceVars, newServer, tableCall,
                   distributedCall>>

\* ------------------------------------------------------------------------
\* The table plugin
\* ------------------------------------------------------------------------
MaxColumns == 2
MaxConstraintLists == 2

\* ColumnDefinition: Name and Type.
ColumnDefinitions == {[Name |-> "a", Type |-> "TEXT"], [Name |-> "b", Type |-> "INTEGER"]}

ColumnLists == UNION { [1..n -> ColumnDefinitions] : n \in 0..MaxColumns }

\* request["action"]; "" is also what a request without the key gives.
TableActions == {"", "generate", "columns", "bad"}

\* The "list" of a constraint list in the context JSON: a string, an array
\* of constraints, a number, an array with an "op" string that is no integer,
\* with an "op" that is neither string nor number, or with an "expr" that is
\* no string.
ListKinds == {"string", "constraints", "number", "op text", "op bool", "expr number"}

\* request["context"]: text that is no JSON value of the expected shape, or an
\* object with its constraint lists.
ContextJSONs == {[json |-> FALSE, lists |-> <<>>]} \cup
                UNION { [json : {TRUE}, lists : [1..n -> ListKinds]] : n \in 0..MaxConstraintLists }

\* What the generate function returns: rows or an error.
GenerateAnswers == {"rows", "foobar"}

GeneratedRows == <<"r1", "r2">>

TableCalls ==
    [op : {"table"}, columns : ColumnLists, action : TableActions, context : ContextJSONs,
     generate : GenerateAnswers, returned : {FALSE}]

\* Routes(): one route per column, in the order of the columns.
Routes(columns) ==
    [i \in 1..Len(columns) |->
        [id |-> "column", name |-> columns[i].Name, type |-> columns[i].Type, op |-> "0"]]

\* parseConstraintList: the error, "" for none, and the constraints.
parseConstraintList(list) ==
    CASE list = "string" -> [err |-> "", constraints |-> "none"]
      [] list = "number" -> [err |-> "unexpected context list: %s", constraints |-> "none"]
      [] list = "op text" -> [err |-> "parsing operator int: %s", constraints |-> "none"]
      [] list = "op bool" -> [err |-> "cannot parse type %T", constraints |-> "none"]
      [] list = "expr number" -> [err |-> "expr should be string: %s", constraints |-> "none"]
      [] OTHER -> [err |-> "", constraints |-> "some"]

\* The loop of parseQueryContext over lists[i..]: the first error, or the
\* constraints of every list.
RECURSIVE ParseLists(_, _, _)
ParseLists(lists, i, done) ==
    IF i > Len(lists) THEN [err |-> "", ctx |-> done]
    ELSE LET l == parseConstraintList(lists[i]) IN
         IF l.err # "" THEN [err |-> l.err, ctx |-> <<>>]
         ELSE ParseLists(lists, i + 1, Append(done, l.constraints))

parseQueryContextAnyLists(ctxJSON) ==
    IF ~ctxJSON.json THEN [err |-> "unmarshaling context JSON", ctx |-> <<>>]
    ELSE [err |-> "", ctx |-> [i \in 1..Len(ctxJSON.lists) |-> "some"]]

parseQueryContext(ctxJSON) ==
    IF ~ctxJSON.json THEN [err |-> "unmarshaling context JSON", ctx |-> <<>>]
    ELSE ParseLists(ctxJSON.lists, 1, <<>>)

\* The response of Call and the query contexts it calls generate with.
TableCallResult(columns, action, context, generate) ==
    CASE action = "generate" ->
           LET parsed == parseQueryContext(context) IN
           IF parsed.err # ""
           THEN [status |-> [code |-> 1,
                             message |-> <<"error parsing context JSON: ", parsed.err>>],
                 response |-> <<>>, generated |-> <<>>]
           ELSE IF generate # "rows"
           THEN [status |-> [code |-> 1,
                             message |-> <<"error generating table: ", generate>>],
                 response |-> <<>>, generated |-> <<parsed.ctx>>]
           ELSE [status |-> [code |-> 0, message |-> <<"OK", "">>],
                 response |-> GeneratedRows, generated |-> <<parsed.ctx>>]
      [] action = "columns" ->
           [status |-> [code |-> 0, message |-> <<"OK", "">>],
            response |-> Routes(columns), generated |-> <<>>]
      [] OTHER ->
           [status |-> [code |-> 1, message |-> <<"unknown action: ", action>>],
            response |-> <<>>, generated |-> <<>>]

TableCall ==
    /\ tableCall.op = "table"
    /\ ~tableCall.returned
    /\ tableCall' = [tableCall EXCEPT !.returned = TRUE] @@
                     [result |-> TableCallResult(tableCall.columns, tableCall.action,
                                                 tableCall.context, tableCall.generate)]
    /\ UNCHANGED <<serverFields, mutex, thrift, inflight, stopper, startPc, startErr,
                   shutdownCalls, osquerySide, startLog, runVars, registryVars, lastQuery,
                   lockerVars, stops, wdClock, calling, traceVars, newServer, loggerCall,
                   distributedCall>>

\* ------------------------------------------------------------------------
\* The distributed plugin
\* ------------------------------------------------------------------------
QueryNames == {"query1", "query2"}

\* The texts of a status, as their characters.
StatusTexts == {<<>>, <<"0">>, <<"2", "3">>, <<"-", "1", "2">>, <<"0", "0", "0", "0">>,
                <<"f", "o", "o">>}

\* A status in the JSON of the results: a JSON string or a JSON number.
StatusValues == [json : {"string"}, text : StatusTexts] \cup
                [json : {"number"}, n : {0, 1}]

\* An entry of "queries": an array of rows, a string, a number, or an array
\* with an element that is no object.
QueryEntries == [json : {"array"}, rows : {<<"r1">>, <<"r1", "r2">>}] \cup
                {[json |-> "string"], [json |-> "number"], [json |-> "array of numbers"]}

PartialMaps(keys, values) == UNION { [ks -> values] : ks \in SUBSET keys }

\* request["results"]: text that is no JSON, or an object with "queries" and
\* "statuses".
ResultsJSONs ==
    {[json |-> FALSE]} \cup
    [json : {TRUE}, queries : PartialMaps(QueryNames, QueryEntries),
     statuses : PartialMaps(QueryNames, StatusValues)]

\* What the functions of the plugin return: nil or an error.
WriterErrors == {"nil", "writeResults failed"}

DistributedCalls ==
    [op : {"distributed"}, action : {"writeResults"}, results : ResultsJSONs,
     fnErr : WriterErrors, returned : {FALSE}] \cup
    [op : {"distributed"}, action : {"getQueries", "bad", ""}, results : {[json |-> FALSE]},
     fnErr : WriterErrors, returned : {FALSE}]

Digit(ch) ==
    CASE ch = "0" -> 0 [] ch = "1" -> 1 [] ch = "2" -> 2 [] ch = "3" -> 3 [] ch = "4" -> 4
      [] ch = "5" -> 5 [] ch = "6" -> 6 [] ch = "7" -> 7 [] ch = "8" -> 8 [] ch = "9" -> 9
      [] OTHER -> -1

RECURSIVE Decimal(_, _)
Decimal(digits, acc) ==
    IF digits = <<>> THEN acc ELSE Decimal(Tail(digits), 10 * acc + Digit(Head(digits)))

\* strconv.Atoi: an optional sign and at least one digit.
Atoi(text) ==
    LET signed == text # <<>> /\ Head(text) \in {"-", "+"}
        digits == IF signed THEN Tail(text) ELSE text
    IN  IF digits = <<>> \/ \E i \in 1..Len(digits) : Digit(digits[i]) < 0
        THEN [err |-> TRUE, n |-> 0]
        ELSE [err |-> FALSE,
              n |-> IF signed /\ Head(text) = "-" THEN 0 - Decimal(digits, 0)
                    ELSE Decimal(digits, 0)]

\* Decode into struct{Queries map[string]interface{}; Statuses map[string]string}:
\* the error of the decoder, "" for none.
DecodeError(jsn) ==
    IF ~jsn.json THEN "invalid character"
    ELSE IF \E q \in DOMAIN jsn.statuses : jsn.statuses[q].json # "string"
    THEN "json: cannot unmarshal number"
    ELSE ""

\* The orders in which a range over a map can visit its keys.
Orders(keys) ==
    {o \in [1..Cardinality(keys) -> keys] : \A i, j \in DOMAIN o : o[i] = o[j] => i = j}

\* The loop of parseResults over the statuses order[i..].
RECURSIVE ParseStatuses(_, _, _, _)
ParseStatuses(jsn, order, i, results) ==
    IF i > Len(order) THEN [err |-> "", results |-> results]
    ELSE LET queryName == order[i]
             statVal == Atoi(jsn.statuses[queryName].text)
             entry(rows) == [QueryName |-> queryName, Status |-> statVal.n, Rows |-> rows]
         IN  IF statVal.err THEN [err |-> "invalid status", results |-> <<>>]
             ELSE IF queryName \notin DOMAIN jsn.queries
             THEN ParseStatuses(jsn, order, i + 1, Append(results, entry(<<>>)))
             ELSE LET query == jsn.queries[queryName] IN
                  CASE query.json = "string" ->
                         ParseStatuses(jsn, order, i + 1, Append(results, entry(<<>>)))
                    [] query.json = "array" ->
                         ParseStatuses(jsn, order, i + 1, Append(results, entry(query.rows)))
                    [] query.json = "array of numbers" ->
                         [err |-> "invalid row type for query", results |-> <<>>]
                    [] OTHER -> [err |-> "query type is not valid", results |-> <<>>]

\* parseResults, when the range over the statuses takes the given order.
parseResults(jsn, order) ==
    IF DecodeError(jsn) # "" THEN [err |-> DecodeError(jsn), results |-> <<>>]
    ELSE ParseStatuses(jsn, order, 1, <<>>)

\* The response of Call and the results it calls the writer with.
DistributedCallResult(action, jsn, order, fnErr) ==
    CASE action = "getQueries" ->
           IF fnErr # "nil"
           THEN [status |-> [code |-> 1, message |-> <<"error getting queries: ", fnErr>>],
                 written |-> <<>>]
           ELSE [status |-> [code |-> 0, message |-> <<"OK", "">>], written |-> <<>>]
      [] action = "writeResults" ->
           LET parsed == parseResults(jsn, order) IN
           IF parsed.err # ""
           THEN [status |-> [code |-> 1,
                             message |-> <<"error unmarshalling results: ", parsed.err>>],
                 written |-> <<>>]
           ELSE IF fnErr # "nil"
           THEN [status |-> [code |-> 1, message |-> <<"error writing results: ", fnErr>>],
                 written |-> <<parsed.results>>]
           ELSE [status |-> [code |-> 0, message |-> <<"OK", "">>],
                 written |-> <<parsed.results>>]
      [] OTHER ->
           [status |-> [code |-> 1, message |-> <<"unknown action: ", action>>],
            written |-> <<>>]

DistributedCall ==
    /\ distributedCall.op = "distributed"
    /\ ~distributedCall.returned
    /\ \E order \in Orders(IF distributedCall.results.json
                            THEN DOMAIN distributedCall.results.statuses ELSE {}) :
         distributedCall' = [distributedCall EXCEPT !.returned = TRUE] @@
             [result |-> DistributedCallResult(distributedCall.action,
                             distributedCall.results, order, distributedCall.fnErr)]
    /\ UNCHANGED <<serverFields, mutex, thrift, inflight, stopper, startPc, startErr,
                   shutdownCalls, osquerySide, startLog, runVars, registryVars, lastQuery,
                   lockerVars, stops, wdClock, calling, traceVars, newServer, loggerCall, tableCall>>

NoPluginCalls ==
    /\ newServer = NoCall
    /\ loggerCall = NoCall
    /\ tableCall = NoCall
    /\ distributedCall = NoCall

\* A client of its own, used by its callers; no server is run on it.
Init == LockerInit /\ ServerInit(FALSE) /\ NoPluginCalls

\* A server whose client has the default wait times of NewClient, the maximum
\* being the larger.
ServerSpecInit ==
    /\ LockerInit
    /\ defaultTimeout = 1
    /\ maxWait = MaxDuration
    /\ \E owned \in BOOLEAN : ServerInit(owned)
    /\ NoPluginCalls

Next == LockerNext

Spec == Init /\ [][Next]_vars

\* The locker used directly, Unlock calls outside a Lock/Unlock pair included.
ApiNext ==
    \/ LockerSteps(ApiCallers)
    \/ \E c \in ApiCallers : ExtraUnlock(c)

ApiSpec == Init /\ [][ApiNext]_vars

\* The server: one Start, and Shutdown calls, direct and served.
ServerSpec == ServerSpecInit /\ [][ServerNext]_vars

\* A new server with an injected client of the default wait times.
NewServerInit ==
    /\ LockerInit
    /\ defaultTimeout = 1
    /\ maxWait = MaxDuration
    /\ ServerInit(FALSE)
    /\ NoPluginCalls

\* The methods of a client called by several goroutines, their stubs
\* returning a result or an error.
ClientNext ==
    \/ LockerSteps(Callers)
    \/ \E c \in Callers : StubFails(c)

ClientSpec == NewServerInit /\ [][ClientNext]_vars

\* The registry of a server under RegisterPlugin calls and routed requests.
RegistrySpec == NewServerInit /\ [][RegistryNext]_vars

\* RegisterPlugin calls, and a Start call as far as its s.mutex.Lock().
RegisterLockNext ==
    \/ \E plugins \in PluginLists : RegisterPlugin(plugins)
    \/ StartLock

RegisterLockSpec == NewServerInit /\ [][RegisterLockNext]_vars

\* The query helpers of a client over the answers a query can get.
QuerySpec == NewServerInit /\ [][QueryNext]_vars

\* One goroutine calling the query methods of a client nobody else uses.
QueryLockSpec == NewServerInit /\ [][QueryLockNext]_vars

\* A server run with Run.  Every goroutine of the program that can take a
\* step takes one in the end; the watchdog's sleep and the calls from outside
\* need not.
RunSpec == ServerSpecInit /\ [][RunNext]_vars /\ WF_vars(~Crashed /\ RunSteps)

\* The parts of the state the calls of one function do not use.
IdleInit ==
    /\ LockerInit
    /\ defaultTimeout = 1
    /\ maxWait = MaxDuration
    /\ ServerInit(FALSE)

\* NewExtensionManagerServer over its arguments.
ConstructInit ==
    /\ IdleInit
    /\ newServer \in NewServerCalls
    /\ loggerCall = NoCall
    /\ tableCall = NoCall
    /\ distributedCall = NoCall

ConstructNext == NewExtensionManagerServer

ConstructSpec == ConstructInit /\ [][ConstructNext]_vars

\* Call of a logger plugin over its requests and the answers of the log function.
LoggerInit ==
    /\ IdleInit
    /\ newServer = NoCall
    /\ loggerCall \in LoggerCalls
    /\ tableCall = NoCall
    /\ distributedCall = NoCall

LoggerNext == LoggerCall

LoggerSpec == LoggerInit /\ [][LoggerNext]_vars

\* ------------------------------------------------------------------------
\* plugin/table: parseQueryContext over the two encodings of osquery
\* ------------------------------------------------------------------------
\* The most constraints of one column.
MaxConstraints == 2

\* OperatorEquals and OperatorLike.
Operators == {2, 65}

\* The columns of a query, each with its name, affinity and []Constraint.
QueryColumns ==
    LET constraintSeqs ==
            UNION { [1..n -> [Operator : Operators, Expression : {"kolide.co"}]] :
                      n \in 0..MaxConstraints }
        columns == [name : {"domain", "email"}, affinity : {"TEXT"},
                    constraints : constraintSeqs]
    IN UNION { [1..n -> columns] : n \in 0..MaxConstraintLists }

\* parseQueryContext called on a query, or on one whose JSON is wrong in one
\* place.  A JSON value is written [t |-> its Go type decoded into
\* interface{}, v |-> the value].
ParseCalls ==
    [op : {"parse"}, columns : QueryColumns,
     spoil : {"none", "bad json", "op bool", "op missing", "expr number"},
     returned : {FALSE}]

\* strconv.Itoa of a number below 100, as its characters.
Itoa(n) ==
    LET ch(d) == CHOOSE c \in {"0", "1", "2", "3", "4", "5", "6", "7", "8", "9"} : Digit(c) = d
    IN IF n < 10 THEN <<ch(n)>> ELSE <<ch(n \div 10), ch(n % 10)>>

\* The "list" of a column as osquery writes it: before 3.0 the operator is a
\* string and an empty list is "", from 3.0 on the operator is a number and an
\* empty list is [].
EncodeList(encoding, constraints) ==
    IF encoding = "stringy"
    THEN IF constraints = <<>> THEN [t |-> "string", v |-> <<>>]
         ELSE [t |-> "array",
               v |-> [i \in 1..Len(constraints) |->
                        [op |-> [t |-> "string", v |-> Itoa(constraints[i].Operator)],
                         expr |-> [t |-> "string", v |-> constraints[i].Expression]]]]
    ELSE [t |-> "array",
          v |-> [i \in 1..Len(constraints) |->
                   [op |-> [t |-> "float64", v |-> constraints[i].Operator],
                    expr |-> [t |-> "string", v |-> constraints[i].Expression]]]]

\* The first constraint of a list made wrong.
SpoilList(list, spoil) ==
    IF list.t # "array" \/ list.v = <<>> THEN list
    ELSE [list EXCEPT !.v[1] =
            CASE spoil = "op bool" -> [@ EXCEPT !.op = [t |-> "bool", v |-> TRUE]]
              [] spoil = "op missing" -> [@ EXCEPT !.op = [t |-> "<nil>", v |-> 0]]
              [] spoil = "expr number" -> [@ EXCEPT !.expr = [t |-> "float64", v |-> 1]]
              [] OTHER -> @]

\* The context JSON of a query in one of the encodings.
EncodeContext(encoding, columns, spoil) ==
    [json |-> spoil # "bad json",
     constraints |-> [i \in 1..Len(columns) |->
                        [name |-> columns[i].name, affinity |-> columns[i].affinity,
                         list |-> SpoilList(EncodeList(encoding, columns[i].constraints),
                                            spoil)]]]

NoParseError == [msg |-> "", arg |-> ""]

\* The body of the loop of parseConstraintList for one element c.
ParseConstraint(c) ==
    LET opInt == IF c.op.t = "string" THEN Atoi(c.op.v) ELSE [err |-> FALSE, n |-> 0]
    IN  IF c.op.t = "string" /\ opInt.err
        THEN [err |-> [msg |-> "parsing operator int: %s", arg |-> c.op.t]]
        ELSE IF c.op.t \notin {"string", "float64"}
        THEN [err |-> [msg |-> "cannot parse type %T", arg |-> c.op.t]]
        ELSE IF c.expr.t # "string"
        THEN [err |-> [msg |-> "expr should be string: %s", arg |-> c.expr.t]]
        ELSE [err |-> NoParseError,
              constraint |-> [Operator |-> IF c.op.t = "string" THEN opInt.n ELSE c.op.v,
                              Expression |-> c.expr.v]]

\* The loop of parseConstraintList over cList[i..], cl being the constraints
\* appended so far.
RECURSIVE ParseConstraints(_, _, _)
ParseConstraints(cList, i, cl) ==
    IF i > Len(cList) THEN [err |-> NoParseError, constraints |-> cl]
    ELSE LET c == ParseConstraint(cList[i]) IN
         IF c.err # NoParseError THEN [err |-> c.err, constraints |-> <<>>]
         ELSE ParseConstraints(cList, i + 1, Append(cl, c.constraint))

\* parseConstraintList that takes arrays only.
ParseListArraysOnly(list) ==
    CASE list.t = "array" -> ParseConstraints(list.v, 1, <<>>)
      [] OTHER -> [err |-> [msg |-> "unexpected context list: %s", arg |-> list.t],
                   constraints |-> <<>>]

\* parseConstraintList on the raw JSON of "list": a string is the empty list,
\* an array of objects is parsed, anything else is an error.
ParseList(list) ==
    CASE list.t = "string" -> [err |-> NoParseError, constraints |-> <<>>]
      [] list.t = "array" -> ParseConstraints(list.v, 1, <<>>)
      [] OTHER -> [err |-> [msg |-> "unexpected context list: %s", arg |-> list.t],
                   constraints |-> <<>>]

\* The loop of parseQueryContext over parsed.Constraints[i..]; qc is
\* ctx.Constraints, a map from the name of a column to its ConstraintList.
RECURSIVE ParseColumns(_, _, _)
ParseColumns(parsed, i, qc) ==
    IF i > Len(parsed) THEN [err |-> NoParseError, ctx |-> qc]
    ELSE LET l == ParseList(parsed[i].list) IN
         IF l.err # NoParseError THEN [err |-> l.err, ctx |-> <<>>]
         ELSE ParseColumns(parsed, i + 1,
                  (parsed[i].name :> [Affinity |-> parsed[i].affinity,
                                      Constraints |-> l.constraints]) @@ qc)

\* parseQueryContext(ctxJSON) on the JSON as text decoded or not.
ParseContext(ctxJSON) ==
    IF ~ctxJSON.json
    THEN [err |-> [msg |-> "unmarshaling context JSON", arg |-> ""], ctx |-> <<>>]
    ELSE ParseColumns(ctxJSON.constraints, 1, <<>>)

\* parseQueryContext called on each encoding of one query.
ParseQueryContexts ==
    /\ tableCall.op = "parse"
    /\ ~tableCall.returned
    /\ tableCall' = [tableCall EXCEPT !.returned = TRUE] @@
                     [stringy |-> ParseContext(EncodeContext("stringy", tableCall.columns,
                                                             tableCall.spoil)),
                      strong |-> ParseContext(EncodeContext("strong", tableCall.columns,
                                                            tableCall.spoil))]
    /\ UNCHANGED <<serverFields, mutex, thrift, inflight, stopper, startPc, startErr,
                   shutdownCalls, osquerySide, startLog, runVars, registryVars, lastQuery,
                   lockerVars, stops, wdClock, calling, traceVars, newServer, loggerCall,
                   distributedCall>>

\* Call of a table plugin over its requests and the answers of generate.
TableInit ==
    /\ IdleInit
    /\ newServer = NoCall
    /\ loggerCall = NoCall
    /\ tableCall \in TableCalls
    /\ distributedCall = NoCall

TableNext == TableCall

TableSpec == TableInit /\ [][TableNext]_vars

\* parseQueryContext over the queries osquery can send, in both encodings.
ParseInit ==
    /\ IdleInit
    /\ newServer = NoCall
    /\ loggerCall = NoCall
    /\ tableCall \in ParseCalls
    /\ distributedCall = NoCall

ParseNext == ParseQueryContexts

ParseSpec == ParseInit /\ [][ParseNext]_vars

\* Call of a distributed plugin over its requests and the answers of its
\* functions.
DistributedInit ==
    /\ IdleInit
    /\ newServer = NoCall
    /\ loggerCall = NoCall
    /\ tableCall = NoCall
    /\ distributedCall \in DistributedCalls

DistributedNext == DistributedCall

DistributedSpec == DistributedInit /\ [][DistributedNext]_vars

\* SetTracerProvider calls of one goroutine beside StartSpan calls of others.
TracesSpec == NewServerInit /\ [][TracesNext]_vars

\* ------------------------------------------------------------------------
\* Properties of the locker and of the client's use of it
\* ------------------------------------------------------------------------
Min(a, b) == IF a <= b THEN a ELSE b

Failed(c) == pc[c] = "failed"

InLock(c) == pc[c] \in {"parked", "failed"}

\* C1: at most one caller is between a Lock that returned nil and its Unlock,
\* that is, inside the Thrift stub of a client RPC method; the channel holds
\* exactly one value per such caller.
C1_AtMostOneInStub ==
    /\ Cardinality(Holders) <= 1
    /\ chanLen = Cardinality(Holders)

\* A caller is inside the stub while another one waits for the lock.
C1_Witness ==
    \E a, b \in Callers : pc[a] = "held" /\ pc[b] = "parked"

\* C5: a Lock whose context has no deadline never waits longer than
\* defaultTimeout; when its timer expires it has waited exactly defaultTimeout,
\* returns "timeout after <defaultTimeout>", not the "maximum of" form, and the
\* caller is no holder.
C5_NoDeadlineWaitsDefault ==
    \A c \in Callers :
        (InLock(c) /\ ~HasDeadline(ctx[c])) =>
            /\ waited[c] <= defaultTimeout
            /\ Failed(c) =>
                  /\ c \notin Holders
                  /\ result[c].msg # "timeout after maximum of %s"
                  /\ result[c].msg \in {"timeout after %s", "context canceled: %w"}
                  /\ result[c].msg = "timeout after %s" =>
                        /\ result[c].wait = defaultTimeout
                        /\ waited[c] = defaultTimeout

\* A Lock without deadline timed out with the default where the maximum is larger.
C5_Witness ==
    \E c \in Callers :
        /\ Failed(c)
        /\ ctx[c] = Background
        /\ result[c] = TimeoutErr("timeout after %s", defaultTimeout)
        /\ defaultTimeout < maxWait

\* C6: a Lock whose context deadline lies beyond maxWait (and is not cancelled
\* by hand) waits at most maxWait; when it fails it has waited exactly maxWait,
\* the context has not expired, and the error is
\* "timeout after maximum of <maxWait>".
C6_MaxWaitOverridesDeadline ==
    \A c \in Callers :
        (InLock(c) /\ HasDeadline(ctx[c]) /\ ctx[c].d > maxWait /\ ~ctx[c].cancelled) =>
            /\ waited[c] <= maxWait
            /\ Failed(c) =>
                  /\ result[c] = TimeoutErr("timeout after maximum of %s", maxWait)
                  /\ waited[c] = maxWait
                  /\ CtxErr(ctx[c], waited[c]) = ""

\* A Lock with a deadline beyond maxWait failed with the "maximum of" error.
C6_Witness ==
    \E c \in Callers :
        /\ Failed(c)
        /\ HasDeadline(ctx[c])
        /\ ctx[c].d > maxWait
        /\ result[c].msg = "timeout after maximum of %s"

\* C7: a Lock whose context deadline is D away is, at every moment of its wait
\* and when it returns, no more than min(D, maxWait) old.
C7_WaitAtMostMinDeadlineMaxWait ==
    \A c \in Callers :
        (InLock(c) /\ HasDeadline(ctx[c])) => waited[c] <= Min(ctx[c].d, maxWait)

\* A Lock gave up at its context deadline, which came before maxWait.
C7_Witness ==
    \E c \in Callers :
        /\ Failed(c)
        /\ HasDeadline(ctx[c])
        /\ 0 < ctx[c].d
        /\ ctx[c].d < maxWait
        /\ waited[c] = ctx[c].d

\* C8: when the context of a parked Lock is cancelled, that Lock returns at
\* once with "context canceled: <ctx.Err()>", and the channel, the other
\* waiters and the holder are as before; a Lock that returned this error wraps
\* the error of a context that is done, and its caller is no holder.
C8_CancelStopsWaiting ==
    /\ [](\A c \in Callers :
            (Failed(c) /\ result[c].msg = "context canceled: %w") =>
                /\ result[c].inner # ""
                /\ result[c].inner = CtxErr(ctx[c], waited[c])
                /\ c \notin Holders)
    /\ [][\A c \in Callers :
            (pc[c] = "parked" /\ ~ctx[c].cancelled /\ ctx'[c].cancelled) =>
                /\ pc'[c] = "failed"
                /\ result'[c] = CanceledErr("context canceled")
                /\ chanLen' = chanLen
                /\ acquired' = acquired
                /\ Holders' = Holders
                /\ sendq' = Without(sendq, c)]_vars

\* A parked Lock was cancelled by hand before its timer was due.
C8_Witness ==
    \E c \in Callers :
        /\ Failed(c)
        /\ ctx[c].cancelled
        /\ result[c] = CanceledErr("context canceled")
        /\ waited[c] < LockWait(ctx[c])
        /\ Holders # {}

Saturation ==
    /\ together
    /\ ~brief
    /\ \A c \in Callers : pc[c] # "idle"

\* C10: under saturation at most one Lock succeeds and every failed Lock
\* returned "timeout after <defaultTimeout>"; once all callers are through,
\* exactly one has succeeded and the other NumCallers - 1 have timed out.
C10_SaturationOneSuccess ==
    Saturation =>
        /\ acquired <= 1
        /\ \A c \in Callers :
              Failed(c) => result[c] = TimeoutErr("timeout after %s", defaultTimeout)
        /\ (\A c \in Callers : pc[c] \in {"done", "failed"}) =>
              /\ Cardinality({c \in Callers : pc[c] = "done"}) = 1
              /\ Cardinality({c \in Callers : Failed(c)}) = NumCallers - 1

\* The saturated run is over: one success, the others timed out.
C10_Witness ==
    /\ Saturation
    /\ \A c \in Callers : pc[c] \in {"done", "failed"}
    /\ Cardinality({c \in Callers : Failed(c)}) = NumCallers - 1

\* ------------------------------------------------------------------------
\* Properties of Shutdown
\* ------------------------------------------------------------------------
\* C2: with the server started, a Shutdown request being served and a direct
\* Shutdown call both return: neither ends in a panic, and the server cannot
\* come to rest while one of them has not returned.
C2_BothShutdownsReturn ==
    \A a, b \in ShutdownCallers :
        (shStarted[a] /\ shStarted[b] /\ shVia[a] = "rpc" /\ shVia[b] = "direct") =>
            /\ shPc[a] # "panicked"
            /\ shPc[b] # "panicked"
            /\ (~(ENABLED ServerNext)) => (shPc[a] = "returned" /\ shPc[b] = "returned")

\* C3: on a started server, whether or not it owns its client, the second and
\* every later Shutdown call does not panic and returns a nil error, as long
\* as every deregistration reported success.
C3_LaterShutdownReturnsNil ==
    \A t \in ShutdownCallers :
        (shStarted[t] /\ shOrd[t] >= 2 /\ ~deregFailed) =>
            /\ shPc[t] # "panicked"
            /\ shPc[t] = "returned" => shErr[t] = "nil"

\* C4: over all Shutdown calls at most one deregisters the extension with
\* success, and every call returns success.
C4_OneDeregistrationAllReturn ==
    /\ deregOK <= 1
    /\ \A t \in ShutdownCallers :
          /\ shPc[t] # "panicked"
          /\ (shPc[t] = "returned" /\ ~deregFailed) => shErr[t] = "nil"

\* ------------------------------------------------------------------------
\* Properties of Run, Start and Shutdown
\* ------------------------------------------------------------------------
\* Run received the error of a failed Ping and has returned.
RunOverAfterPing == runPc = "returned" /\ runGot \in PingErrors

\* C11 as stated: when the watchdog's Ping fails, Run invokes Shutdown and
\* then returns that ping error.
C11_PingFailureReturnsPingError ==
    RunOverAfterPing =>
        /\ shPc[runSh] = "returned"
        /\ runErr = runGot

\* C11: when the watchdog's Ping returns an error or a status that is not 0,
\* Run invokes Shutdown (DeregisterExtension is called and the client closed)
\* and returns afterwards: the error of Shutdown when deregistration failed,
\* and the ping error otherwise; never nil.
C11_PingFailureShutsDownThenReturns ==
    RunOverAfterPing =>
        /\ shPc[runSh] = "returned"
        /\ shErr[runSh] \in {DeregisterError(a) : a \in Answers}
        /\ closes >= 1
        /\ runErr = (IF shErr[runSh] = "nil" THEN runGot ELSE shErr[runSh])
        /\ runErr # "nil"

\* Run returned the ping error after a Shutdown that deregistered and closed.
C11_Witness ==
    /\ RunOverAfterPing
    /\ runGot = "extension ping failed"
    /\ runErr = runGot
    /\ deregOK >= 1
    /\ closes >= 1

\* C12: once RegisterExtension has failed inside the Start that Run started,
\* Run returns in the end, with an error that is not nil.
C12_RunReturnsAfterRegisterFails ==
    (runPc # "idle" /\ startErr \in RegisterErrors) ~> (runPc = "returned" /\ runErr # "nil")

\* C13: once a Shutdown call has completed, Start never afterwards calls
\* RegisterExtension, sets started, or begins to serve.
C13_TerminalAfterShutdown ==
    [][(\E t \in ShutdownCallers : shPc[t] = "returned") =>
          /\ ~(startPc = "register" /\ startPc' \in {"open", "returned"})
          /\ (started' => started)
          /\ (thrift' = "serving" => thrift = "serving")]_vars

\* C18: the client of a server that did not make it (WithClient) is never
\* closed by Shutdown; only an owned client is.
C18_InjectedClientNeverClosed ==
    closes > 0 => serverClientShouldShutdown

\* C19: if RegisterExtension answered with an error or a status that is not 0,
\* Start has returned the matching error ("status %d registering extension:
\* %s" for the status), s.uuid is not assigned, no transport is open and no
\* Thrift server made, started is false, nothing was served or deregistered by
\* Start, and Start does not hold s.mutex.
C19_RegisterFailureLeavesServerNew ==
    startAns \in {"err", "status"} =>
        /\ startPc \in {"returned", "sending", "exited"}
        /\ startErr = (IF startAns = "status" THEN "status %d registering extension: %s"
                       ELSE "registering extension")
        /\ uuid = 0
        /\ transport = "nil"
        /\ server = "nil"
        /\ thrift = "none"
        /\ ~started
        /\ startDereg = <<>>
        /\ Starter \notin mutex

\* Start returned the status error and a Shutdown call has taken the mutex since.
C19_Witness ==
    /\ startAns = "status"
    /\ startErr = "status %d registering extension: %s"
    /\ startPc = "returned"
    /\ \E t \in ShutdownCallers : mutex = {t}

LastSame(plugins, i) ==
    LET same == {j \in 1..Len(plugins) :
                    /\ plugins[j].registryName = plugins[i].registryName
                    /\ plugins[j].name = plugins[i].name}
    IN plugins[CHOOSE j \in same : \A k \in same : k <= j]

C15_CallRouting ==
    lastOp.op = "call" =>
        /\ lastOp.err = "nil"
        /\ IF lastOp.registry \notin {"table", "logger", "config", "distributed"}
           THEN /\ lastOp.response.status =
                       [code |-> 1, message |-> <<"Unknown registry: ", lastOp.registry>>]
                /\ lastOp.invoked = <<>>
           ELSE IF lastOp.item \notin DOMAIN registry[lastOp.registry]
           THEN /\ lastOp.response.status =
                       [code |-> 1, message |-> <<"Unknown registry item: ", lastOp.item>>]
                /\ lastOp.invoked = <<>>
           ELSE LET plugin == registry[lastOp.registry][lastOp.item] IN
                  /\ lastOp.invoked = <<plugin.id>>
                  /\ lastOp.response = PluginResponse(plugin, lastOp.request)

\* A request was routed to one of two plugins registered in a registry.
C15_Witness ==
    /\ lastOp.op = "call"
    /\ lastOp.registry = "config"
    /\ lastOp.item = "b"
    /\ lastOp.invoked = <<4>>
    /\ "a" \in DOMAIN registry["table"]

\* ------------------------------------------------------------------------
\* Properties of the query helpers
\* ------------------------------------------------------------------------
\* C16: QueryRows wraps an error of Query as "transport error in query";
\* else reports a nil status as "query returned nil status"; else a status
\* code that is not 0 as "query returned error: <message>"; otherwise returns
\* the rows of the response unchanged with a nil error.  It returns rows only
\* for a status with code 0.
C16_QueryRowsClassifies ==
    lastQuery.op = "QueryRows" =>
        LET res == lastQuery.res IN
          /\ res.err # Nil =>
                /\ lastQuery.err.msg = "transport error in query"
                /\ lastQuery.err.inner = res.err.msg
          /\ (res.err = Nil /\ ~res.status.present) =>
                lastQuery.err.msg = "query returned nil status"
          /\ (res.err = Nil /\ res.status.present /\ res.status.code # 0) =>
                /\ lastQuery.err.msg = "query returned error: %s"
                /\ lastQuery.err.inner = res.status.message
          /\ (res.err = Nil /\ res.status.present /\ res.status.code = 0) =>
                /\ lastQuery.err = Nil
                /\ lastQuery.rows = res.response
          /\ lastQuery.err # Nil => lastQuery.rows = <<>>
          /\ lastQuery.rows # <<>> => (res.status.present /\ res.status.code = 0)

\* QueryRows returned the two rows of a response with status code 0.
C16_Witness ==
    /\ lastQuery.op = "QueryRows"
    /\ lastQuery.err = Nil
    /\ lastQuery.rows = <<"r1", "r2">>
    /\ lastQuery.res.status.code = 0

\* C17: QueryRow returns the row exactly when QueryRows succeeds with one
\* row; with another number N of rows, 0 included, it returns "expected 1
\* row, got N" and no row; when QueryRows fails it returns that error.
C17_QueryRowExactlyOne ==
    lastQuery.op = "QueryRow" =>
        LET out == QueryRows(lastQuery.res) IN
          /\ (lastQuery.err = Nil) <=> (out.err = Nil /\ Len(out.rows) = 1)
          /\ lastQuery.err = Nil => lastQuery.row = out.rows[1]
          /\ out.err # Nil => (lastQuery.err = out.err /\ lastQuery.row = NoRow)
          /\ (out.err = Nil /\ Len(out.rows) # 1) =>
                /\ lastQuery.err = [msg |-> "expected 1 row, got %d", inner |-> "",
                                    n |-> Len(out.rows)]
                /\ lastQuery.row = NoRow

\* QueryRow refused a response of two rows.
C17_Witness ==
    /\ lastQuery.op = "QueryRow"
    /\ lastQuery.res.response = <<"r2", "r1">>
    /\ lastQuery.err.msg = "expected 1 row, got %d"
    /\ lastQuery.err.n = 2

\* ------------------------------------------------------------------------
\* Properties of NewExtensionManagerServer
\* ------------------------------------------------------------------------
\* C21: NewExtensionManagerServer lets a socket path of up to 97 characters
\* pass its length check, and answers a path of 98 or more with an error that
\* contains "exceeded the maximum socket path character length", no server,
\* and without creating a client.
C21_SocketPathLength ==
    (newServer.op = "new" /\ newServer.returned) =>
        LET r == newServer.result IN
        /\ newServer.len >= 98 =>
               /\ r.err = TooLongMessage
               /\ ~r.server
               /\ r.newClients = 0
               /\ r.serverClient = "nil"
        /\ newServer.len <= 97 =>
               /\ r.err # TooLongMessage
               /\ r.server = (newServer.withClient \/ newServer.dial = "ok")
               /\ r.server = (r.err = "")
               /\ r.newClients = (IF newServer.withClient THEN 0 ELSE 1)

\* A path of 97 characters was accepted and a client created for it.
C21_Witness ==
    /\ newServer.op = "new" /\ newServer.returned
    /\ newServer.len = 97
    /\ newServer.result.server
    /\ newServer.result.newClients = 1

\* ------------------------------------------------------------------------
\* Properties of Run's watchdog
\* ------------------------------------------------------------------------
\* C22: the watchdog has at most one Ping in flight; it calls Ping only when
\* no Ping is in flight, every earlier Ping has returned a zero status and a
\* full ping interval has passed since it began to sleep; after a Ping that
\* failed or returned a non-zero status it calls Ping no more.
C22_OnePingAtATime ==
    /\ [](pingsInFlight <= 1)
    /\ [][pingsInFlight' > pingsInFlight =>
             /\ pingsInFlight = 0
             /\ lastPing # "failed"
             /\ wdSlept = PingInterval]_vars
    /\ [][(wdSlept' = 0 /\ wdSlept # 0) =>
             (pingsInFlight = 1 /\ pingsInFlight' = 0 /\ lastPing' = "ok")]_vars
    /\ [][lastPing = "failed" => (lastPing' = "failed" /\ pingsInFlight' = 0)]_vars

\* A second Ping is in flight after the first returned a zero status and the
\* watchdog slept for another interval.
C22_Witness ==
    /\ pingsInFlight = 1
    /\ lastPing = "ok"
    /\ wdSlept = PingInterval
    /\ wdPc = "pinging"
    /\ runPc = "recv"
    /\ started

\* ------------------------------------------------------------------------
\* Properties of the client's RPC methods
\* ------------------------------------------------------------------------
\* C23: a call of a client RPC method invokes the Thrift stub at most once and
\* never retries: a call is inside the stub, or past it, only with a Lock
\* that returned nil; a call whose Lock failed has returned the locker's
\* error, is out of the queue, and never enters the stub; a call that left
\* the stub never enters it again.
C23_StubAtMostOnce ==
    /\ [](\A c \in Callers :
            /\ pc[c] \in {"held", "unlock", "done"} => result[c] = NoError
            /\ pc[c] = "failed" =>
                   /\ result[c] # NoError
                   /\ result[c].msg \in {"context canceled: %w", "timeout after %s",
                                          "timeout after maximum of %s"}
                   /\ \A i \in 1..Len(sendq) : sendq[i] # c)
    /\ [][\A c \in Callers :
            /\ pc[c] = "failed" => (pc'[c] = "failed" /\ result'[c] = result[c])
            /\ pc[c] \in {"unlock", "done"} => pc'[c] \in {"unlock", "done"}
            /\ (pc'[c] = "held" /\ pc[c] # "held") => pc[c] \in {"idle", "parked"}]_vars

\* One call returned the locker's timeout error without the stub, while
\* another went through the stub and returned.
C23_Witness ==
    \E a, b \in Callers :
        /\ pc[a] = "failed" /\ result[a].msg = "timeout after %s"
        /\ pc[b] = "done" /\ result[b] = NoError

StatusMeant(v) ==
    IF v.json = "number" THEN [err |-> FALSE, n |-> v.n]
    ELSE IF v.text = <<>> THEN [err |-> FALSE, n |-> 0]
    ELSE Atoi(v.text)

\* A writeResults call has returned whose payload is JSON with entries of
\* "queries" that are arrays of rows or strings.
WriteResultsReturned ==
    /\ distributedCall.op = "distributed" /\ distributedCall.returned
    /\ distributedCall.action = "writeResults"
    /\ distributedCall.results.json
    /\ \A q \in DOMAIN distributedCall.results.queries :
           distributedCall.results.queries[q].json \in {"array", "string"}

\* C26: writeResults of the distributed plugin gives exactly one Result per
\* query name in statuses, with the rows of its entry in queries when that is
\* an array of rows and no rows when the entry is "" or missing, each with its
\* status; the writer is called exactly once with these results, and the
\* response has code 0 when the writer succeeds.
C26_OneResultPerStatus ==
    (/\ WriteResultsReturned
     /\ \A q \in DOMAIN distributedCall.results.statuses :
            ~StatusMeant(distributedCall.results.statuses[q]).err) =>
        LET jsn == distributedCall.results
            r == distributedCall.result
        IN  /\ Len(r.written) = 1
            /\ Len(r.written[1]) = Cardinality(DOMAIN jsn.statuses)
            /\ \A q \in DOMAIN jsn.statuses :
                   \E i \in 1..Len(r.written[1]) :
                       /\ r.written[1][i].QueryName = q
                       /\ r.written[1][i].Status = StatusMeant(jsn.statuses[q]).n
                       /\ r.written[1][i].Rows =
                              IF q \in DOMAIN jsn.queries /\ jsn.queries[q].json = "array"
                              THEN jsn.queries[q].rows ELSE <<>>
            /\ distributedCall.fnErr = "nil" => r.status.code = 0

\* C27: the parse of a status in a writeResults payload gives 0 for an empty
\* value, the integer for a quoted decimal and for a raw JSON decimal, and an
\* error for text that is no number, on which writeResults answers code 1 with
\* a message that starts with "error unmarshalling results" and does not call
\* the writer.
C27_StatusParse ==
    WriteResultsReturned =>
        LET jsn == distributedCall.results
            r == distributedCall.result
        IN  IF \E q \in DOMAIN jsn.statuses : StatusMeant(jsn.statuses[q]).err
            THEN /\ r.status.code = 1
                 /\ r.status.message[1] = "error unmarshalling results: "
                 /\ r.written = <<>>
            ELSE /\ Len(r.written) = 1
                 /\ \A i \in 1..Len(r.written[1]) :
                        r.written[1][i].Status =
                            StatusMeant(jsn.statuses[r.written[1][i].QueryName]).n

\* ------------------------------------------------------------------------
\* Properties of package traces
\* ------------------------------------------------------------------------
\* C28: SetTracerProvider does not race with StartSpan calls that run beside
\* it: every StartSpan uses a provider that tracerProvider held before or
\* after a replacement, never a mix of two.
C28_StartSpanUsesOneProvider ==
    \A g \in Spans :
        spanPc[g] = "started" =>
            /\ spanRead[g]["typ"] = spanRead[g]["data"]
            /\ spanRead[g]["typ"] \in {GlobalProvider} \cup Providers

\* ------------------------------------------------------------------------
\* Properties of Shutdown's stop and of the server mutex
\* ------------------------------------------------------------------------
\* C29: for a started server, however many Shutdown calls are made, one after
\* the other or at once, Stop of the Thrift server is called exactly once: no
\* more than once ever, and once as soon as a Shutdown call made on the
\* started server is past its stop step.
C29_StopExactlyOnce ==
    /\ stops <= 1
    /\ \A t \in ShutdownCallers :
           (shStarted[t] /\ shPc[t] \in {"closeOwned", "returned"}) =>
               (stops = 1 /\ server = "nil")

\* Two Shutdown calls made on the started server have returned.
C29_Witness ==
    /\ stops = 1
    /\ \E a, b \in ShutdownCallers :
           /\ a # b
           /\ shStarted[a] /\ shStarted[b]
           /\ shPc[a] = "returned" /\ shPc[b] = "returned"

\* Start is between its s.mutex.Lock() and the Unlock: registration and the
\* set-up of the server.
InStartSection == startPc \in {"register", "open"}

\* Shutdown call t is between its s.mutex.Lock() and the deferred Unlock.
InShutdownSection(t) == shPc[t] \in {"deregister", "close", "stop", "closeOwned"}

\* C30 as stated: Start's registration and set-up, Shutdown's teardown and
\* Call's read of the registry each run holding the server mutex, so that
\* none of them overlaps with another.
C30_StartShutdownCallExclusive ==
    /\ InStartSection => \A t \in ShutdownCallers : ~InShutdownSection(t)
    /\ \A a, b \in ShutdownCallers :
           (InShutdownSection(a) /\ InShutdownSection(b)) => a = b
    /\ calling > 0 =>
           /\ ~InStartSection
           /\ \A t \in ShutdownCallers : ~InShutdownSection(t)

\* C30 as amended: Start's registration and set-up and Shutdown's teardown
\* each run holding the server mutex, which has one holder at most, so that
\* none of them overlaps with another; a Call holds no mutex.
C30_StartShutdownExclusive ==
    /\ Cardinality(mutex) <= 1
    /\ InStartSection => mutex = {Starter}
    /\ \A t \in ShutdownCallers : InShutdownSection(t) => mutex = {t}
    /\ Starter \in mutex => InStartSection
    /\ \A t \in ShutdownCallers : t \in mutex => InShutdownSection(t)

\* A Call is being served while a Shutdown call holds the mutex in its
\* teardown.
C30_Witness ==
    /\ calling > 0
    /\ \E t \in ShutdownCallers : InShutdownSection(t) /\ mutex = {t}

\* ------------------------------------------------------------------------
\* Properties of Start's started flag
\* ------------------------------------------------------------------------
\* C31: started becomes true only inside Start, with the server mutex held,
\* after registration succeeded, the uuid was stored, the listening transport
\* was opened and the Thrift server was made; so started implies that the
\* uuid is assigned and the transport set, and a Shutdown call made after
\* started was seen finds a server to stop unless one was stopped before.
C31_StartedAfterSetUp ==
    /\ [](started => (uuid \in UUIDs /\ transport # "nil"))
    /\ [](started => (server # "nil" \/ stops >= 1))
    /\ [](\A t \in ShutdownCallers :
             (shStarted[t] /\ shPc[t] = "stop" /\ stops = 0) => server # "nil")
    /\ [][(started' /\ ~started) =>
             /\ mutex = {Starter}
             /\ startPc = "open"
             /\ startAns = "ok"
             /\ uuid \in UUIDs /\ uuid' = uuid
             /\ transport' # "nil"
             /\ server' # "nil"
             /\ thrift' = "created"]_vars
    /\ [][started => started']_vars

\* A Shutdown call made after started was seen has taken the server and
\* spawned its Stop.
C31_Witness ==
    /\ started
    /\ \E t \in ShutdownCallers :
           /\ shStarted[t]
           /\ shPc[t] = "closeOwned"
           /\ shOrd[t] = 1
    /\ stops = 1
    /\ server = "nil"

\* ------------------------------------------------------------------------
\* Properties of Run's goroutines
\* ------------------------------------------------------------------------
\* The watchdog's next step reads s.serverClient.
WatchdogReads == wdPc = "ping" \/ (wdPc = "sleep" /\ SleepOver(wdSlept))

\* The next step of Shutdown call t writes nil to s.serverClient.
ShutdownWrites(t) ==
    shPc[t] = "closeOwned" /\ serverClientShouldShutdown /\ serverClient # "nil"

\* C32: the watchdog of Run never calls Ping on a client that Shutdown has
\* cleared, and the field serverClient is never read by the watchdog while a
\* Shutdown call writes it.
C32_WatchdogNeverPingsCleared ==
    /\ wdPc # "panicked"
    /\ ~(WatchdogReads /\ \E t \in ShutdownCallers : ShutdownWrites(t))

\* A goroutine Run started is blocked in `errc <- ...`.
BlockedOnErrc == {e.from : e \in {errc[i] : i \in 1..Len(errc)}}

\* C33: once Run has returned, neither the goroutine that ran Start nor the
\* watchdog is blocked sending on errc, which nobody receives from any more.
C33_NoWorkerBlockedAfterRun ==
    runPc = "returned" => (BlockedOnErrc = {} /\ startPc # "sending" /\ wdPc # "sending")

\* ------------------------------------------------------------------------
\* Properties of the client's use of the locker
\* ------------------------------------------------------------------------
\* Callers whose client method has returned after a Lock that returned nil.
Returned == {c \in Callers : pc[c] = "done"}

\* C34: a client method that acquired the locker releases it exactly once
\* before it returns, whether its stub returned a result or an error; when no
\* method is between its Lock and the return of its Unlock the locker is free,
\* and no Unlock panics.
C34_ReleasedExactlyOnce ==
    /\ [](released = Cardinality(Returned))
    /\ [](acquired = Cardinality(Returned) + Cardinality(Holders))
    /\ [](chanLen = (IF Holders = {} THEN 0 ELSE 1))
    /\ [](unlockPanics = 0 /\ \A c \in Callers : pc[c] # "panicked")
    /\ [][\A c \in Callers :
            (pc'[c] = "done" /\ pc[c] # "done") =>
                (pc[c] = "unlock" /\ released' = released + 1)]_vars

C34_Witness ==
    /\ \E c \in Returned : result[c] = StubError
    /\ \E c \in Returned : result[c] = NoError
    /\ Holders = {}
    /\ chanLen = 0
    /\ released = 2

\* C35: a Lock call that returns an error leaves the locker as it was: the
\* channel keeps its content, the holder stays the holder, nothing is counted
\* as acquired or released, every other caller stays where it is and the
\* other parked callers keep their order in the queue.
C35_FailedLockChangesNothing ==
    [][\A c \in Callers :
         (pc'[c] = "failed" /\ pc[c] # "failed") =>
            /\ pc[c] \in {"idle", "parked"}
            /\ result'[c] # NoError
            /\ chanLen' = chanLen
            /\ Holders' = Holders
            /\ acquired' = acquired /\ released' = released
            /\ sendq' = Without(sendq, c)
            /\ \A b \in Callers \ {c} : pc'[b] = pc[b] /\ result'[b] = result[b]]_vars

C35_Witness ==
    \E c, h, w \in Callers :
        /\ pc[c] = "failed" /\ waited[c] >= 1
        /\ pc[h] = "held"
        /\ pc[w] = "parked" /\ c < w
        /\ sendq = <<w>>
        /\ chanLen = 1

\* C36: a call of Query, QueryRows or QueryRow on a client with a free locker
\* and no other caller makes exactly one Lock call, never one while it holds
\* the locker, leaves the locker free, and returns what the stub's answer
\* gives, never a locker timeout.
C36_QueryLocksOnce ==
    lastQuery.op \in QueryMethods =>
        /\ lastQuery.lockCalls = 1
        /\ lastQuery.reentrant = 0
        /\ chanLen = 0 /\ acquired = released
        /\ lastQuery.res = lastQuery.answer
        /\ lastQuery.err.msg # "timeout after %s"
        /\ lastQuery.err.inner # "timeout after %s"

C36_Witness ==
    /\ lastQuery.op = "QueryRow"
    /\ lastQuery.lockCalls = 1
    /\ lastQuery.err = Nil
    /\ lastQuery.row = "r1"
    /\ acquired = 2 /\ released = 2
    /\ chanLen = 0

\* C37: over the Shutdown calls made on one server, Close is called on the
\* server's client at most once, and once a client the server owns has been
\* closed and the Shutdown call that closed it has returned, serverClient is nil.
C37_ClientClosedAtMostOnce ==
    /\ closes <= 1
    /\ (serverClientShouldShutdown /\ closes >= 1
           /\ \A t \in ShutdownCallers : shPc[t] \in {"idle", "returned"})
        => serverClient = "nil"

\* ------------------------------------------------------------------------
\* Properties of RegisterPlugin
\* ------------------------------------------------------------------------
\* The index of the first plugin whose registry name is not valid, or the
\* length of the list plus one.
FirstInvalid(plugins) ==
    LET bad == {i \in 1..Len(plugins) : plugins[i].registryName \notin validRegistryNames}
    IN IF bad = {} THEN Len(plugins) + 1 ELSE CHOOSE i \in bad : \A j \in bad : i <= j

\* C38: RegisterPlugin registers its arguments in their order under s.mutex;
\* on the first plugin whose registry name is not valid it panics, having
\* registered the plugins before it and none after it; the mutex is free after
\* the call, panic or not, so that the s.mutex.Lock() of a later RegisterPlugin,
\* Start or Shutdown call does not block.
C38_RegisterPluginPanics ==
    /\ [][(lastOp'.op = "register" /\ <<registry, lastOp>>' # <<registry, lastOp>>) =>
            LET ps == lastOp'.plugins
                k == FirstInvalid(ps)
            IN /\ lastOp'.panicked <=> k <= Len(ps)
               /\ mutex = {} /\ mutex' = {}
               /\ DOMAIN registry' = DOMAIN registry
               /\ \A kind \in DOMAIN registry : \A n \in ItemNames :
                     LET idx == {i \in 1..(k - 1) :
                                    ps[i].registryName = kind /\ ps[i].name = n}
                     IN IF idx = {}
                        THEN /\ (n \in DOMAIN registry'[kind]) = (n \in DOMAIN registry[kind])
                             /\ n \in DOMAIN registry[kind] =>
                                    registry'[kind][n] = registry[kind][n]
                        ELSE /\ n \in DOMAIN registry'[kind]
                             /\ registry'[kind][n] =
                                    ps[CHOOSE i \in idx : \A j \in idx : j <= i]]_vars
    /\ [](mutex \subseteq {Starter})
    /\ []((lastOp.op = "register" /\ startPc = "idle")
           => /\ TryLock(mutex)
              /\ ENABLED StartLock
              /\ ENABLED RegisterPlugin(lastOp.plugins))

\* A call panicked on its second plugin after it registered the first, and a
\* Start call took the mutex afterwards.
C38_Witness ==
    /\ lastOp.op = "register"
    /\ lastOp.panicked
    /\ Len(lastOp.plugins) = 2
    /\ lastOp.plugins[1].id = 3
    /\ lastOp.plugins[2].id = 6
    /\ "a" \in DOMAIN registry["logger"]
    /\ DOMAIN registry["table"] = {}
    /\ mutex = {Starter}

\* ------------------------------------------------------------------------
\* Properties of parseQueryContext
\* ------------------------------------------------------------------------
\* The last column of the query with the given name.
LastNamed(columns, name) ==
    columns[CHOOSE i \in 1..Len(columns) :
               /\ columns[i].name = name
               /\ \A j \in 1..Len(columns) : columns[j].name = name => j <= i]

\* The query has a constraint, which a spoil makes wrong.
Spoilt(call) ==
    /\ call.spoil \in {"op bool", "op missing", "expr number"}
    /\ \E i \in 1..Len(call.columns) : call.columns[i].constraints # <<>>

\* C39: parseQueryContext gives the same QueryContext for the encoding with
\* the operator as a string of digits and an empty list written "" and for the
\* one with the operator as a number and an empty list written []: the
\* constraints of every column, in their order; an operator of another JSON
\* type fails with "cannot parse type <T>" and an expression that is no string
\* with "expr should be string: <v>", in both encodings.
C39_EncodingsParseAlike ==
    (tableCall.op = "parse" /\ tableCall.returned) =>
        LET c == tableCall
            names == {c.columns[i].name : i \in 1..Len(c.columns)}
        IN
        /\ c.stringy = c.strong
        /\ (c.spoil = "none" \/ (c.spoil # "bad json" /\ ~Spoilt(c))) =>
              /\ c.strong.err = NoParseError
              /\ DOMAIN c.strong.ctx = names
              /\ \A n \in names :
                    /\ c.strong.ctx[n].Affinity = LastNamed(c.columns, n).affinity
                    /\ c.strong.ctx[n].Constraints = LastNamed(c.columns, n).constraints
        /\ (Spoilt(c) /\ c.spoil = "op bool") =>
              c.strong.err = [msg |-> "cannot parse type %T", arg |-> "bool"]
        /\ (Spoilt(c) /\ c.spoil = "op missing") =>
              c.strong.err = [msg |-> "cannot parse type %T", arg |-> "<nil>"]
        /\ (Spoilt(c) /\ c.spoil = "expr number") =>
              c.strong.err = [msg |-> "expr should be string: %s", arg |-> "float64"]

\* The query of TestParseVaryingQueryContexts with a second constraint: both
\* encodings give the two constraints of "domain" in their order and no
\* constraint for "email".
C39_Witness ==
    /\ tableCall.op = "parse" /\ tableCall.returned
    /\ tableCall.spoil = "none"
    /\ Len(tableCall.columns) = 2
    /\ tableCall.columns[1].name = "domain"
    /\ tableCall.columns[2].name = "email"
    /\ tableCall.columns[2].constraints = <<>>
    /\ tableCall.stringy.err = NoParseError
    /\ tableCall.stringy.ctx["domain"].Constraints =
          <<[Operator |-> 65, Expression |-> "kolide.co"],
            [Operator |-> 2, Expression |-> "kolide.co"]>>
    /\ tableCall.strong.ctx["email"].Constraints = <<>>

====
